---- MODULE Spec2Model ----
(***************************************************************************)
(* Verification model of revenium-middleware-anthropic-go: the metering    *)
(* pipeline of one ReveniumAnthropic client.  CreateMessage picks the      *)
(* direct or the gateway path, the gateway path retries and falls back to  *)
(* the direct provider, every successful call starts one dispatch          *)
(* goroutine that POSTs the payload with retry, and Flush/Close wait on    *)
(* the shared WaitGroup.                                                   *)
(***************************************************************************)
EXTENDS Integers, Sequences, FiniteSets, TLC

(***************************************************************************)
(* Bounds of the model.                                                    *)
(***************************************************************************)
MaxCalls == 2
MaxCloses == 1
MaxWindow == 3
MaxMessages == 3
MaxEvents == 2
MaxTicks == 2
MaxStreamCloses == 2
MaxAccumulated == 5
MaxProcs == 2
MaxBuilt == 2

(***************************************************************************)
(* Program constants.                                                      *)
(***************************************************************************)
maxRetries == 3
initialBackoff == 100
MaxRetries == 3
InitialBackoff == 100
MaxBackoff == 5000
BackoffMultiplier == 2

(***************************************************************************)
(* Go string functions (package strings), computed on the characters.      *)
(***************************************************************************)
HasPrefix(s, p) ==
  Len(s) >= Len(p) /\ SubSeq(s, 1, Len(p)) = p

StrContains(s, sub) ==
  \E i \in 1..(Len(s) - Len(sub) + 1) : SubSeq(s, i, i + Len(sub) - 1) = sub

TrimPrefix(s, p) ==
  IF HasPrefix(s, p) THEN SubSeq(s, Len(p) + 1, Len(s)) ELSE s

\* strings.Index(s, sep) as a 1-based position, 0 when sep does not occur
StrIndex(s, sep) ==
  LET hits == {i \in 1..(Len(s) - Len(sep) + 1) : SubSeq(s, i, i + Len(sep) - 1) = sep}
  IN  IF hits = {} THEN 0 ELSE CHOOSE i \in hits : \A j \in hits : i <= j

\* strings.LastIndex(s, sep), 1-based, 0 when sep does not occur
StrLastIndex(s, sep) ==
  LET hits == {i \in 1..(Len(s) - Len(sep) + 1) : SubSeq(s, i, i + Len(sep) - 1) = sep}
  IN  IF hits = {} THEN 0 ELSE CHOOSE i \in hits : \A j \in hits : i >= j

\* strings.Split(s, sep)[0]
SplitFirst(s, sep) ==
  IF StrIndex(s, sep) = 0 THEN s ELSE SubSeq(s, 1, StrIndex(s, sep) - 1)

\* parts[len(parts)-1] of strings.Split(s, sep)
SplitLast(s, sep) ==
  IF StrLastIndex(s, sep) = 0 THEN s
  ELSE SubSeq(s, StrLastIndex(s, sep) + Len(sep), Len(s))

(***************************************************************************)
(* ConvertBedrockARNToAnthropicModel: result [model, err].                 *)
(***************************************************************************)
\* variant: the version suffix is kept
StripVersion_None(m) == m

StripVersion(m) == SplitFirst(SplitFirst(m, "-v"), ":")

\* variant: an input that cannot be parsed gives a default model and no error
ConvertBedrockARNToAnthropicModel_Default(bedrockModel) ==
  IF /\ ~StrContains(bedrockModel, "arn:aws:bedrock")
     /\ ~HasPrefix(bedrockModel, "anthropic.")
     /\ ~StrContains(bedrockModel, "inference-profile")
  THEN [model |-> bedrockModel, err |-> FALSE]
  ELSE IF StrContains(bedrockModel, "arn:aws:bedrock") /\ StrContains(bedrockModel, "/")
  THEN [model |-> StripVersion(TrimPrefix(TrimPrefix(TrimPrefix(
                     SplitLast(bedrockModel, "/"),
                     "us.anthropic."), "eu.anthropic."), "ap.anthropic.")),
        err |-> FALSE]
  ELSE IF HasPrefix(bedrockModel, "anthropic.")
  THEN [model |-> StripVersion(TrimPrefix(bedrockModel, "anthropic.")), err |-> FALSE]
  ELSE [model |-> "claude-3-5-sonnet-20241022", err |-> FALSE]

ConvertBedrockARNToAnthropicModel(bedrockModel) ==
  IF /\ ~StrContains(bedrockModel, "arn:aws:bedrock")
     /\ ~HasPrefix(bedrockModel, "anthropic.")
     /\ ~StrContains(bedrockModel, "inference-profile")
  THEN [model |-> bedrockModel, err |-> FALSE]
  ELSE IF StrContains(bedrockModel, "arn:aws:bedrock") /\ StrContains(bedrockModel, "/")
  THEN [model |-> StripVersion(TrimPrefix(TrimPrefix(TrimPrefix(
                     SplitLast(bedrockModel, "/"),
                     "us.anthropic."), "eu.anthropic."), "ap.anthropic.")),
        err |-> FALSE]
  ELSE IF HasPrefix(bedrockModel, "anthropic.")
  THEN [model |-> StripVersion(TrimPrefix(bedrockModel, "anthropic.")), err |-> FALSE]
  ELSE [model |-> "", err |-> TRUE]

(***************************************************************************)
(* IsRetryableError and its helper contains (bedrock.go).                  *)
(***************************************************************************)
retryablePatterns ==
  << "timeout", "connection refused", "connection reset", "temporary failure",
     "service unavailable", "throttling", "rate exceeded",
     "RequestLimitExceeded", "ThrottlingException" >>

contains(s, substr) ==
  Len(s) >= Len(substr) /\ (s = substr \/ Len(s) > 0)

IsRetryableError(errStr) ==
  /\ errStr # ""
  /\ \E i \in 1..Len(retryablePatterns) : contains(errStr, retryablePatterns[i])

\* backoff = min(backoff * multiplier, MaxBackoff)
NextBackoff(b) ==
  IF b * BackoffMultiplier > MaxBackoff THEN MaxBackoff ELSE b * BackoffMultiplier

\* variant: one more retry
RetryLoopContinues_OneMore(a) == a <= MaxRetries + 1

\* loop condition of RetryWithBackoff: attempt <= cfg.MaxRetries
RetryLoopContinues(a) == a <= MaxRetries

(***************************************************************************)
(* The metering collector and the error a POST attempt returns.            *)
(* An outcome is the HTTP status of the response, or NetErr when           *)
(* client.Do fails.                                                        *)
(***************************************************************************)
NetErr == 0
Outcomes == {NetErr, 200, 204, 304, 400, 429, 500, 503}

NoError == [type |-> "nil", status |-> 0]

\* variant: HTTP 429 counted as a transient error instead of a validation error
sendMeteringRequest_429Transient(o) ==
  IF o = NetErr THEN [type |-> "NetworkError", status |-> 0]
  ELSE IF o < 200 \/ o >= 300
       THEN IF o >= 400 /\ o < 429
            THEN [type |-> "ValidationError", status |-> o]
            ELSE [type |-> "MeteringError", status |-> o]
       ELSE NoError

sendMeteringRequest(o) ==
  IF o = NetErr THEN [type |-> "NetworkError", status |-> 0]
  ELSE IF o < 200 \/ o >= 300
       THEN IF o >= 400 /\ o < 500
            THEN [type |-> "ValidationError", status |-> o]
            ELSE [type |-> "MeteringError", status |-> o]
       ELSE NoError

IsValidationError(err) == err.type = "ValidationError"

\* variant: no error is recognised as a validation error
isValidationError_Never(err) == FALSE

isValidationError(err) ==
  IF err = NoError THEN FALSE ELSE IsValidationError(err)

\* variant: one iteration too many
DispatchLoopContinues_OffByOne(a) == a <= maxRetries

\* the loop of sendMeteringWithRetry goes on while attempt < maxRetries
DispatchLoopContinues(a) == a < maxRetries

\* variant: the internal name is sent as it is
normalizeProviderName_Raw(p) == p

normalizeProviderName(p) ==
  CASE p = "AWS" -> "Amazon Bedrock"
    [] p = "Anthropic" -> "Anthropic"
    [] OTHER -> p

(***************************************************************************)
(* State.                                                                  *)
(***************************************************************************)
VARIABLES
  provider,    \* MessagesInterface.provider of the client: "ANTHROPIC" or "AWS"
  collector,   \* the outcomes the metering collector can give in this run
  call,        \* call[c]: one CreateMessage invocation (a caller goroutine)
  task,        \* task[t]: the dispatch goroutine started by call t or by a stream Close
  wg,          \* ReveniumAnthropic.wg, the WaitGroup counter
  closes,      \* number of StreamingWrapper.Close calls made so far
  flush,       \* the goroutine that calls Flush or Close on the client
  arg,         \* the arguments of the library function under call
  ret,         \* what that function returned, NoRet before it has run
  sw,          \* the StreamingWrapper of the streaming session and its stream
  clock,       \* the monotonic clock read by time.Now(), in nanoseconds
  metering,    \* the goroutines started by StreamingWrapper.Close, in start order
  global,      \* globalClient, initialized and globalMu of the package
  env,         \* the environment variables of the process
  proc,        \* proc[p]: a goroutine that calls Initialize, Reset, GetClient, IsInitialized
  cm,          \* the ClientManager: its cache and the clients built, handed out, closed
  getter       \* getter[p]: a goroutine that calls ClientManager.GetReveniumClient

pipelineVars == << provider, collector, call, task, wg, closes, flush >>
\* the state that no step of the metering pipeline touches
streamVars == << sw, clock, metering >>
lifeVars == << global, env, proc >>
managerVars == << cm, getter >>
outsidePipeline == << arg, ret, streamVars, lifeVars, managerVars >>
vars == << provider, collector, call, task, wg, closes, flush, arg, ret, sw, clock, metering,
          global, env, proc, cm, getter >>

NoArg == [ fn |-> "none" ]
NoRet == [ fn |-> "none" ]

\* no client: a nil *ReveniumAnthropic
NilClient == [ id |-> 0 ]
\* the package before Initialize: no client, not initialized, globalMu free,
\* no client constructed yet
NoGlobal == [ globalClient |-> NilClient, initialized |-> FALSE, globalMu |-> 0, built |-> 0 ]
\* an environment with none of the variables set
NoEnv ==
  [ REVENIUM_METERING_API_KEY |-> "", ANTHROPIC_API_KEY |-> "",
    REVENIUM_METERING_BASE_URL |-> "", AWS_ACCESS_KEY_ID |-> "",
    AWS_SECRET_ACCESS_KEY |-> "", AWS_REGION |-> "", REVENIUM_CAPTURE_PROMPTS |-> "",
    REVENIUM_BEDROCK_DISABLE |-> "" ]
Procs == 1..MaxProcs
\* a goroutine that has not called anything
NoProc == [ pc |-> "idle", op |-> "", opts |-> << >>, err |-> "", client |-> 0,
            flag |-> FALSE ]

\* NewClientManager: an empty cache (a map from key to client, clients are
\* named by the order they were built in).  built counts the clients made by
\* NewReveniumAnthropic, handed is the set of clients returned to callers,
\* closed the set of clients CloseAll has closed, settled the clients that
\* had been handed out when CloseAll last ran
NewClientManager ==
  [ reveniumClients |-> << >>, built |-> 0, handed |-> {}, closed |-> {},
    settled |-> {}, closeAlls |-> 0 ]
\* a goroutine that has not called GetReveniumClient
NoGetter == [ pc |-> "idle", key |-> "", ReveniumAPIKey |-> "", client |-> 0, err |-> "" ]

\* a *time.Time that is nil
NoTime == -1
\* the event a stream holds before its first Next
NoEvent == [ Type |-> "", Text |-> "", Usage |-> [ InputTokens |-> 0, OutputTokens |-> 0 ],
             StopReason |-> "" ]
\* the empty string, as a text: pad ASCII bytes, a window of bytes given by
\* their classes, tail ASCII bytes, and a suffix given as it is
EmptyText == [ pad |-> 0, bytes |-> << >>, tail |-> 0, suffix |-> "" ]
\* var promptData *PromptData (nil)
NilPromptData == [ isNil |-> TRUE ]
\* no streaming session: CreateMessageStream has not been called.  yielded,
\* types and cur are the state of the wrapped stream: the number of events
\* it has decoded, their types, the event it holds; fragments is the text of
\* the events it has decoded, followed for a session that captures prompts;
\* panicked holds once a call on the session has panicked in its caller, who
\* from then on runs deferred calls only
NoWrapper ==
  [ open |-> FALSE, provider |-> "", params |-> << >>, startTime |-> 0,
    firstTokenTime |-> NoTime, inputTokens |-> 0, outputTokens |-> 0,
    totalTokens |-> 0, stopReason |-> "", yielded |-> 0, types |-> {},
    cur |-> NoEvent, streamClosed |-> FALSE,
    promptData |-> NilPromptData, accumulatedContent |-> EmptyText,
    fragments |-> EmptyText, panicked |-> FALSE ]

Calls == 1..MaxCalls
CloseIds == (MaxCalls + 1)..(MaxCalls + MaxCloses)
TaskIds == Calls \cup CloseIds

\* params.Model values a caller passes
PlainModel == "claude-3-haiku"
Models ==
  { PlainModel,
    "anthropic.claude-3-haiku-v1:0",
    "arn:aws:bedrock:us-east-1:123456789012:inference-profile/us.anthropic.claude-3-haiku-v1:0",
    "arn:aws:bedrock:us-east-1:123456789012",
    "anthropic.anthropic.claude-3-haiku",
    "anthropic.inference-profile" }

\* error texts of a failed BedrockAdapter.CreateMessage
GatewayErrors ==
  { "bedrock api error: ThrottlingException",
    "bedrock api error: AccessDeniedException",
    "failed to transform bedrock response" }
GatewayCancelled == "bedrock api error: context canceled"
CtxErr == "context canceled"
DirectErr == "anthropic api error"

NoCall ==
  [ pc |-> "off", model |-> "", params |-> "", cancelled |-> FALSE,
    attempt |-> 0, backoff |-> 0, lastErr |-> "", retryErr |-> "",
    gwCalls |-> 0, directCalls |-> 0, directModel |-> "", spawns |-> 0,
    got |-> "none", resp |-> "none", err |-> "" ]

NoTask ==
  [ pc |-> "none", provider |-> "", payloadProvider |-> "", attempt |-> 0,
    backoff |-> 0, posts |-> << >>, lastErr |-> NoError, result |-> NoError,
    logged |-> FALSE ]

NoFlush == [ pc |-> "idle", kind |-> "", before |-> {}, inflight |-> 0, seen |-> 0 ]

\* tasks whose goroutine has been started and has not finished
Running == { t \in TaskIds : task[t].pc \notin {"none", "done"} }
Started == { t \in TaskIds : task[t].pc # "none" }

\* m.wg.Add(1); go func() { defer m.wg.Done(); sendMeteringDataWithPrompts(...) }()
Spawn(t, prov) == [ NoTask EXCEPT !.pc = "start", !.provider = prov ]

(***************************************************************************)
(* Initial states.  Spec follows one call through the whole pipeline with  *)
(* every input; SpecFlush runs all calls, a stream Close and Flush/Close   *)
(* concurrently on a client of the direct provider.                        *)
(***************************************************************************)
Init ==
  /\ provider \in {"ANTHROPIC", "AWS"}
  /\ collector = Outcomes
  /\ \E m \in Models :
       call = [ c \in Calls |->
                  IF c = 1 THEN [ NoCall EXCEPT !.pc = "idle", !.model = m ]
                  ELSE NoCall ]
  /\ task = [ t \in TaskIds |-> NoTask ]
  /\ wg = 0
  /\ closes = 0
  /\ flush = NoFlush
  /\ arg = NoArg
  /\ ret = NoRet
  /\ sw = NoWrapper
  /\ clock = 0
  /\ metering = << >>
  /\ global = NoGlobal
  /\ env = NoEnv
  /\ proc = [ p \in Procs |-> NoProc ]
  /\ cm = NewClientManager
  /\ getter = [ p \in Procs |-> NoGetter ]

InitFlush ==
  /\ provider = "ANTHROPIC"
  /\ collector = {200}
  /\ call = [ c \in Calls |-> [ NoCall EXCEPT !.pc = "idle", !.model = PlainModel ] ]
  /\ task = [ t \in TaskIds |-> NoTask ]
  /\ wg = 0
  /\ closes = 0
  /\ flush = NoFlush
  /\ arg = NoArg
  /\ ret = NoRet
  /\ sw = NoWrapper
  /\ clock = 0
  /\ metering = << >>
  /\ global = NoGlobal
  /\ env = NoEnv
  /\ proc = [ p \in Procs |-> NoProc ]
  /\ cm = NewClientManager
  /\ getter = [ p \in Procs |-> NoGetter ]

(***************************************************************************)
(* CreateMessage and the fallback orchestrator.                            *)
(***************************************************************************)
\* the caller cancels the context it passed to CreateMessage
Cancel(c) ==
  /\ call[c].pc \in {"idle", "bedrock", "retry", "gwcall", "backoff", "anthropic"}
  /\ ~call[c].cancelled
  /\ call' = [ call EXCEPT ![c].cancelled = TRUE ]
  /\ UNCHANGED << provider, collector, task, wg, closes, flush >>
  /\ UNCHANGED outsidePipeline

\* CreateMessage: switch m.provider
CreateMessage(c) ==
  /\ call[c].pc = "idle"
  /\ call' = [ call EXCEPT ![c] =
                 IF provider = "ANTHROPIC"
                 THEN [ @ EXCEPT !.pc = "anthropic", !.params = call[c].model ]
                 ELSE IF provider = "AWS"
                 THEN [ @ EXCEPT !.pc = "bedrock", !.params = call[c].model ]
                 ELSE [ @ EXCEPT !.pc = "returned", !.err = "unknown provider" ] ]
  /\ UNCHANGED << provider, collector, task, wg, closes, flush >>
  /\ UNCHANGED outsidePipeline

\* variant: the fallback passes params.Model on without converting it
Fallback_NoConvert(cr, e) ==
  [ cr EXCEPT !.pc = "anthropic", !.retryErr = e, !.params = cr.model ]

\* the fallback of createMessageBedrock: convert params.Model and call
\* createMessageAnthropic with fallbackParams, or return the conversion error
Fallback(cr, e) ==
  LET conv == ConvertBedrockARNToAnthropicModel(cr.model)
  IN  IF conv.err
      THEN [ cr EXCEPT !.pc = "returned", !.retryErr = e,
                       !.err = "failed to convert Bedrock model for fallback" ]
      ELSE [ cr EXCEPT !.pc = "anthropic", !.retryErr = e, !.params = conv.model ]

\* createMessageBedrock up to the start of RetryWithBackoff
createMessageBedrock(c) ==
  /\ call[c].pc = "bedrock"
  /\ \E adapterOK \in BOOLEAN :
       call' = [ call EXCEPT ![c] =
                   IF adapterOK
                   THEN [ @ EXCEPT !.pc = "retry", !.attempt = 0,
                                   !.backoff = InitialBackoff ]
                   ELSE Fallback(@, "failed to load AWS config") ]
  /\ UNCHANGED << provider, collector, task, wg, closes, flush >>
  /\ UNCHANGED outsidePipeline

\* RetryWithBackoff, head of the loop: the context check before fn()
RetryCheck(c) ==
  /\ call[c].pc = "retry"
  /\ call' = [ call EXCEPT ![c] =
                 IF ~RetryLoopContinues(@.attempt)
                 THEN Fallback(@, "max retries exceeded: " \o @.lastErr)
                 ELSE IF @.cancelled
                 THEN Fallback(@, CtxErr)
                 ELSE [ @ EXCEPT !.pc = "gwcall" ] ]
  /\ UNCHANGED << provider, collector, task, wg, closes, flush >>
  /\ UNCHANGED outsidePipeline

\* RetryWithBackoff: fn(), i.e. bedrockAdapter.CreateMessage, and what follows
\* it up to the next wait; on success the rest of createMessageBedrock
GatewayCall(c) ==
  /\ call[c].pc = "gwcall"
  /\ \E out \in IF call[c].cancelled THEN {GatewayCancelled}
                ELSE {"ok"} \cup GatewayErrors :
       IF out = "ok"
       THEN /\ call' = [ call EXCEPT ![c] =
                           [ @ EXCEPT !.pc = "spawned", !.gwCalls = @ + 1,
                                      !.got = "gateway", !.spawns = @ + 1 ] ]
            /\ task' = [ task EXCEPT ![c] = Spawn(c, "AWS") ]
            /\ wg' = wg + 1
       ELSE /\ call' = [ call EXCEPT ![c] =
                           LET cr == [ @ EXCEPT !.gwCalls = @ + 1, !.lastErr = out ]
                           IN  IF ~IsRetryableError(out)
                               THEN Fallback(cr, out)
                               ELSE IF cr.attempt < MaxRetries
                               THEN [ cr EXCEPT !.pc = "backoff" ]
                               ELSE [ cr EXCEPT !.pc = "retry", !.attempt = @ + 1 ] ]
            /\ UNCHANGED << task, wg >>
  /\ UNCHANGED << provider, collector, closes, flush >>
  /\ UNCHANGED outsidePipeline

\* RetryWithBackoff: select { case <-time.After(backoff): case <-ctx.Done(): }
BackoffWait(c) ==
  /\ call[c].pc = "backoff"
  /\ \E woken \in IF call[c].cancelled THEN {"timer", "ctx"} ELSE {"timer"} :
       call' = [ call EXCEPT ![c] =
                   IF woken = "ctx"
                   THEN Fallback(@, CtxErr)
                   ELSE [ @ EXCEPT !.pc = "retry", !.attempt = @ + 1,
                                   !.backoff = NextBackoff(@) ] ]
  /\ UNCHANGED << provider, collector, task, wg, closes, flush >>
  /\ UNCHANGED outsidePipeline

\* createMessageAnthropic: convert the model, call the direct API, start the
\* dispatch goroutine
createMessageAnthropic(c) ==
  /\ call[c].pc = "anthropic"
  /\ LET conv == ConvertBedrockARNToAnthropicModel(call[c].params)
     IN  IF conv.err
         THEN /\ call' = [ call EXCEPT ![c] =
                   [ @ EXCEPT !.pc = "returned",
                        !.err = "failed to convert Bedrock model to Anthropic format" ] ]
              /\ UNCHANGED << task, wg >>
         ELSE \E out \in IF call[c].cancelled THEN {CtxErr} ELSE {"ok", DirectErr} :
                IF out = "ok"
                THEN /\ call' = [ call EXCEPT ![c] =
                          [ @ EXCEPT !.pc = "spawned", !.directCalls = @ + 1,
                                     !.directModel = conv.model, !.got = "direct",
                                     !.spawns = @ + 1 ] ]
                     /\ task' = [ task EXCEPT ![c] = Spawn(c, "Anthropic") ]
                     /\ wg' = wg + 1
                ELSE /\ call' = [ call EXCEPT ![c] =
                          [ @ EXCEPT !.pc = "returned", !.directCalls = @ + 1,
                                     !.directModel = conv.model, !.err = out ] ]
                     /\ UNCHANGED << task, wg >>
  /\ UNCHANGED << provider, collector, closes, flush >>
  /\ UNCHANGED outsidePipeline

\* variant: a dispatch failure that is already known is returned to the caller
ReturnValue_DispatchError(c) ==
  IF task[c].pc = "done" /\ task[c].result # NoError
  THEN [ call[c] EXCEPT !.pc = "returned", !.err = "metering failed" ]
  ELSE [ call[c] EXCEPT !.pc = "returned", !.resp = call[c].got, !.err = "" ]

\* return resp, nil: the response of the provider that answered
ReturnValue(c) == [ call[c] EXCEPT !.pc = "returned", !.resp = call[c].got, !.err = "" ]

Return(c) ==
  /\ call[c].pc = "spawned"
  /\ call' = [ call EXCEPT ![c] = ReturnValue(c) ]
  /\ UNCHANGED << provider, collector, task, wg, closes, flush >>
  /\ UNCHANGED outsidePipeline

(***************************************************************************)
(* The dispatch goroutine: sendMeteringDataWithPrompts and                 *)
(* sendMeteringWithRetry.                                                  *)
(***************************************************************************)
\* buildMeteringPayload, then the first iteration of the retry loop
sendMeteringDataWithPrompts(t) ==
  /\ task[t].pc = "start"
  /\ task' = [ task EXCEPT ![t] =
                 [ @ EXCEPT !.pc = "post", !.attempt = 0, !.backoff = initialBackoff,
                            !.payloadProvider = normalizeProviderName(task[t].provider) ] ]
  /\ UNCHANGED << provider, collector, call, wg, closes, flush >>
  /\ UNCHANGED outsidePipeline

\* the error sendMeteringWithRetry returns when the loop is left after the
\* last attempt: NewMeteringError wrapping lastErr
Exhausted(lastErr) == [ type |-> "MeteringError", status |-> lastErr.status,
                        wraps |-> lastErr.type ]

\* one iteration of sendMeteringWithRetry after its sleep: the POST, the
\* classification of its error, and the end of the goroutine (Error log,
\* deferred wg.Done) when the loop is left
AfterPost(tr, o) ==
  LET err == sendMeteringRequest(o)
      posted == [ tr EXCEPT !.posts = Append(@, o) ]
  IN  IF err = NoError
      THEN [ posted EXCEPT !.pc = "done", !.result = NoError ]
      ELSE IF isValidationError(err)
      THEN [ posted EXCEPT !.pc = "done", !.lastErr = err, !.result = err,
                           !.logged = TRUE ]
      ELSE IF DispatchLoopContinues(tr.attempt + 1)
      THEN [ posted EXCEPT !.pc = "sleep", !.lastErr = err, !.attempt = @ + 1 ]
      ELSE [ posted EXCEPT !.pc = "done", !.lastErr = err, !.attempt = @ + 1,
                           !.result = Exhausted(err), !.logged = TRUE ]

\* wg.Done(): the Done that brings the counter to zero releases a blocked Wait
Released(f, counter) ==
  IF f.pc = "blocked" /\ counter = 0 THEN [ f EXCEPT !.pc = "released" ] ELSE f

Post(t) ==
  /\ task[t].pc = "post"
  /\ \E o \in collector :
       /\ task' = [ task EXCEPT ![t] = AfterPost(@, o) ]
       /\ wg' = IF task'[t].pc = "done" THEN wg - 1 ELSE wg
       /\ flush' = IF task'[t].pc = "done" THEN Released(flush, wg') ELSE flush
  /\ UNCHANGED << provider, collector, call, closes >>
  /\ UNCHANGED outsidePipeline

\* time.Sleep(backoff); backoff *= 2
Sleep(t) ==
  /\ task[t].pc = "sleep"
  /\ task' = [ task EXCEPT ![t] = [ @ EXCEPT !.pc = "post", !.backoff = @ * 2 ] ]
  /\ UNCHANGED << provider, collector, call, wg, closes, flush >>
  /\ UNCHANGED outsidePipeline

(***************************************************************************)
(* StreamingWrapper.Close: starts the dispatch goroutine of a stream on    *)
(* the WaitGroup of the client that opened it.                             *)
(***************************************************************************)
StreamClose ==
  /\ closes < MaxCloses
  /\ \E prov \in IF provider = "AWS" THEN {"AWS", "Anthropic"} ELSE {"Anthropic"} :
       task' = [ task EXCEPT ![MaxCalls + closes + 1] = Spawn(MaxCalls + closes + 1, prov) ]
  /\ wg' = wg + 1
  /\ closes' = closes + 1
  /\ UNCHANGED << provider, collector, call, flush >>
  /\ UNCHANGED outsidePipeline

(***************************************************************************)
(* Flush and Close of ReveniumAnthropic: r.wg.Wait().  Wait returns at     *)
(* once when it loads a zero counter; otherwise it blocks until the Done   *)
(* that brings the counter to zero releases it, loads the state again and  *)
(* panics ("WaitGroup is reused before previous Wait has returned") when   *)
(* an Add has raised the counter in between.                               *)
(***************************************************************************)
\* variant: Wait returns while one goroutine is still counted
WaitReturnsAtOnce_Early(counter) == counter <= 1

\* the first load of Wait: TRUE when Wait returns without blocking
WaitReturnsAtOnce(counter) == counter = 0

FlushCall ==
  /\ flush.pc = "idle"
  /\ \E k \in {"Flush", "Close"} :
       flush' = [ flush EXCEPT !.pc = IF WaitReturnsAtOnce(wg) THEN "returned" ELSE "blocked",
                               !.kind = k, !.before = Started, !.inflight = wg,
                               !.seen = wg ]
  /\ UNCHANGED << provider, collector, call, task, wg, closes >>
  /\ UNCHANGED outsidePipeline

\* the released Wait loads the state again, then Flush (and Close) returns
FlushReturn ==
  /\ flush.pc = "released"
  /\ flush' = [ flush EXCEPT !.pc = IF wg # 0 THEN "panicked" ELSE "returned",
                             !.seen = wg ]
  /\ UNCHANGED << provider, collector, call, task, wg, closes >>
  /\ UNCHANGED outsidePipeline

(***************************************************************************)
(* Specifications.                                                         *)
(***************************************************************************)
Next ==
  \/ \E c \in Calls : Cancel(c)
  \/ \E c \in Calls : CreateMessage(c)
  \/ \E c \in Calls : createMessageBedrock(c)
  \/ \E c \in Calls : RetryCheck(c)
  \/ \E c \in Calls : GatewayCall(c)
  \/ \E c \in Calls : BackoffWait(c)
  \/ \E c \in Calls : createMessageAnthropic(c)
  \/ \E c \in Calls : Return(c)
  \/ \E t \in TaskIds : sendMeteringDataWithPrompts(t)
  \/ \E t \in TaskIds : Post(t)
  \/ \E t \in TaskIds : Sleep(t)

Spec == Init /\ [][Next]_vars

NextFlush ==
  \/ \E c \in Calls : CreateMessage(c)
  \/ \E c \in Calls : createMessageAnthropic(c)
  \/ \E c \in Calls : Return(c)
  \/ \E t \in TaskIds : sendMeteringDataWithPrompts(t)
  \/ \E t \in TaskIds : Post(t)
  \/ StreamClose
  \/ FlushCall
  \/ FlushReturn

SpecFlush == InitFlush /\ [][NextFlush]_vars

TypeOK ==
  /\ wg \in 0..(MaxCalls + MaxCloses)
  /\ wg = Cardinality(Running)

(***************************************************************************)
(* Properties of the retry dispatcher.                                     *)
(***************************************************************************)
Is2xx(o) == o >= 200 /\ o < 300
Is4xx(o) == o >= 400 /\ o < 500
IsTransient(o) == ~Is2xx(o) /\ ~Is4xx(o)
Last(seq) == seq[Len(seq)]

\* C1: a 4xx response is never retried: the attempt that receives it is the
\* last POST of the payload, and sendMeteringWithRetry returns that
\* validation error itself, not wrapped.
C1_ValidationNeverRetried ==
  \A t \in TaskIds : \A i \in 1..Len(task[t].posts) :
    Is4xx(task[t].posts[i]) =>
      /\ i = Len(task[t].posts)
      /\ task[t].pc = "done"
      /\ task[t].result = [type |-> "ValidationError", status |-> task[t].posts[i]]

C1_Witness ==
  \E t \in TaskIds :
    /\ task[t].pc = "done"
    /\ task[t].posts = << 503, 400 >>
    /\ task[t].result.type = "ValidationError"

\* C2: at most 3 POST attempts per payload; the dispatcher stops with success
\* at the first 2xx, goes on after every 5xx or network error while attempts
\* remain, and after the third failed attempt returns a MeteringError that
\* wraps the last error.
C2_AtMostThreeAttempts ==
  \A t \in TaskIds :
    LET ps == task[t].posts
    IN  /\ Len(ps) <= 3
        /\ \A i \in 1..(Len(ps) - 1) : IsTransient(ps[i])
        /\ (Len(ps) > 0 /\ Is2xx(Last(ps))) =>
              task[t].pc = "done" /\ task[t].result = NoError
        /\ (Len(ps) \in 1..2 /\ IsTransient(Last(ps))) =>
              task[t].pc \in {"sleep", "post"}
        /\ (Len(ps) = 3 /\ IsTransient(Last(ps))) =>
              /\ task[t].pc = "done"
              /\ task[t].result.type = "MeteringError"
              /\ task[t].result = Exhausted(sendMeteringRequest(Last(ps)))
        /\ (task[t].pc = "done" /\ task[t].result = NoError) =>
              Len(ps) > 0 /\ Is2xx(Last(ps))

C2_Witness ==
  \E t \in TaskIds :
    /\ task[t].pc = "done"
    /\ task[t].posts = << 500, NetErr, 503 >>
    /\ task[t].result = [type |-> "MeteringError", status |-> 503, wraps |-> "MeteringError"]

AllAre429(ps) == Len(ps) > 0 /\ \A i \in 1..Len(ps) : ps[i] = 429

\* C3 as stated: a collector that answers 429 to every attempt is tried
\* three times and the dispatch ends in a MeteringError.
C3_Original ==
  \A t \in TaskIds :
    (task[t].pc = "done" /\ AllAre429(task[t].posts)) =>
      Len(task[t].posts) = 3 /\ task[t].result.type = "MeteringError"

\* C3 amended: a 429 is a 4xx, so the first 429 ends the dispatch: one
\* attempt, the ValidationError is returned and logged, and the caller's
\* result is the provider's response whatever the dispatch did.
C3_Amended ==
  \A t \in TaskIds :
    AllAre429(task[t].posts) =>
      /\ task[t].pc = "done"
      /\ Len(task[t].posts) = 1
      /\ task[t].result = [type |-> "ValidationError", status |-> 429]
      /\ task[t].logged
      /\ (t \in Calls /\ call[t].pc = "returned") =>
            call[t].resp = call[t].got /\ call[t].resp # "none" /\ call[t].err = ""

C3_Witness ==
  /\ task[1].pc = "done"
  /\ task[1].posts = << 429 >>
  /\ task[1].logged
  /\ call[1].pc = "returned"
  /\ call[1].resp = "direct"

(***************************************************************************)
(* Properties of CreateMessage and of Flush/Close.                         *)
(***************************************************************************)
\* C4: the outcome of the dispatch never reaches the caller: a call whose
\* provider answered returns that response with a nil error in every state of
\* its dispatch task, and the return is enabled as soon as the task has been
\* started, finished or not.
C4_DispatchNeverReachesCaller ==
  \A c \in Calls :
    /\ (call[c].pc = "returned" /\ call[c].got # "none") =>
          call[c].resp = call[c].got /\ call[c].err = ""
    /\ call[c].pc = "spawned" => ENABLED Return(c)
    /\ call[c].pc = "spawned" => call[c].got # "none" /\ task[c].pc # "none"

C4_Witness ==
  \E c \in Calls :
    /\ call[c].pc = "returned"
    /\ call[c].resp = "gateway"
    /\ call[c].err = ""
    /\ task[c].pc = "sleep"
    /\ task[c].posts = << 500 >>

\* C5: when Flush or Close returns, every dispatch task started before it was
\* called has completed, and the counter Wait loaded last was zero.
C5_FlushWaitsForPending ==
  flush.pc = "returned" =>
    /\ \A t \in flush.before : task[t].pc = "done"
    /\ flush.seen = 0

C5_Witness ==
  /\ flush.pc = "returned"
  /\ flush.inflight >= 2
  /\ \E t \in CloseIds : t \in flush.before
  /\ \E c \in Calls : c \in flush.before

(***************************************************************************)
(* Properties of the fallback orchestrator.                                *)
(***************************************************************************)
\* C6 as stated: the gateway is invoked at most 3 times per call.
C6_Original == \A c \in Calls : call[c].gwCalls <= 3

\* C6 amended: the gateway is invoked at most 4 times per call, the first
\* attempt and MaxRetries = 3 retries, and control goes to the fallback once
\* the fourth has failed.
C6_Amended ==
  \A c \in Calls :
    /\ call[c].gwCalls <= 4
    /\ (call[c].gwCalls = 4 /\ call[c].got # "gateway") =>
          call[c].pc \notin {"gwcall", "backoff"}

C6_Witness ==
  \E c \in Calls :
    /\ call[c].gwCalls = 4
    /\ call[c].retryErr = "max retries exceeded: bedrock api error: ThrottlingException"
    /\ call[c].pc = "anthropic"

\* the classification the claim describes: the error text contains a pattern
MatchesPattern(errStr) ==
  \E i \in 1..Len(retryablePatterns) : StrContains(errStr, retryablePatterns[i])

\* C7: a gateway failure is retried when its text contains a pattern of the
\* list; when it contains none the call is not retried: no backoff and no
\* further gateway attempt follow it, the failure itself is what the retry
\* loop returns.
C7_Claim ==
  \A c \in Calls :
    /\ (call[c].lastErr # "" /\ ~MatchesPattern(call[c].lastErr)) =>
          /\ call[c].pc \notin {"backoff", "retry", "gwcall"}
          /\ call[c].retryErr = call[c].lastErr
    /\ (call[c].lastErr # "" /\ MatchesPattern(call[c].lastErr)
          /\ call[c].got # "gateway" /\ call[c].gwCalls < 4) =>
          call[c].pc \in {"backoff", "retry", "gwcall"} \/ call[c].retryErr = CtxErr

FellBack(c) == call[c].retryErr # ""

\* C8 as stated: after a fallback the direct provider is invoked exactly once
\* with the converted model name and its result is the result of the call.
C8_Original ==
  \A c \in Calls :
    (FellBack(c) /\ call[c].pc = "returned") =>
      /\ call[c].directCalls = 1
      /\ call[c].directModel = ConvertBedrockARNToAnthropicModel(call[c].model).model
      /\ call[c].resp = "direct" \/ call[c].err \in {DirectErr, CtxErr}

\* C8 amended: the fallback happens at most once; after an adapter failure the
\* gateway is never called; the model identifier is converted in the fallback
\* and again in createMessageAnthropic; when both conversions succeed the
\* direct provider is invoked exactly once with the resulting name and its
\* result is the result of the call, and when one fails the call returns the
\* conversion error and the direct provider is not invoked.
C8_Amended ==
  \A c \in Calls :
    /\ call[c].directCalls <= 1
    /\ call[c].retryErr = "failed to load AWS config" => call[c].gwCalls = 0
    /\ (FellBack(c) /\ call[c].pc = "returned") =>
         LET c1 == ConvertBedrockARNToAnthropicModel(call[c].model)
             c2 == ConvertBedrockARNToAnthropicModel(c1.model)
         IN  IF c1.err \/ c2.err
             THEN /\ call[c].directCalls = 0
                  /\ call[c].resp = "none"
                  /\ call[c].err = IF c1.err
                                   THEN "failed to convert Bedrock model for fallback"
                                   ELSE "failed to convert Bedrock model to Anthropic format"
             ELSE /\ call[c].directCalls = 1
                  /\ call[c].directModel = c2.model
                  /\ \/ call[c].resp = "direct" /\ call[c].err = ""
                     \/ call[c].resp = "none" /\ call[c].err \in {DirectErr, CtxErr}

C8_Witness ==
  \E c \in Calls :
    /\ call[c].pc = "returned"
    /\ call[c].model = "anthropic.anthropic.claude-3-haiku"
    /\ call[c].gwCalls = 4
    /\ call[c].directCalls = 1
    /\ call[c].directModel = PlainModel
    /\ call[c].resp = "direct"

\* C9: once the retry loop has returned the cancellation error, no provider
\* is called any more: neither another gateway attempt nor the direct
\* provider of the fallback.
C9_Claim ==
  \A c \in Calls :
    call[c].retryErr = CtxErr =>
      /\ call[c].directCalls = 0
      /\ call[c].pc \notin {"gwcall", "backoff"}

\* C10: a call that returns a response has started exactly one dispatch, a
\* call that returns an error none; the provider of the payload is
\* "Amazon Bedrock" exactly when the gateway produced the response and
\* "Anthropic" when the direct provider did, fallback included.
C10_OneDispatchPerResponse ==
  \A c \in Calls :
    /\ call[c].pc = "returned" =>
         IF call[c].err = ""
         THEN call[c].resp # "none" /\ call[c].spawns = 1 /\ task[c].pc # "none"
         ELSE call[c].resp = "none" /\ call[c].spawns = 0 /\ task[c].pc = "none"
    /\ task[c].pc \notin {"none", "start"} =>
         /\ task[c].payloadProvider = "Amazon Bedrock" <=> call[c].got = "gateway"
         /\ task[c].payloadProvider = "Anthropic" <=> call[c].got = "direct"

C10_Witness ==
  \E c \in Calls :
    /\ call[c].pc = "returned"
    /\ FellBack(c)
    /\ call[c].gwCalls > 0
    /\ call[c].resp = "direct"
    /\ task[c].payloadProvider = "Anthropic"
    /\ task[c].pc = "done"

(***************************************************************************)
(* Library functions of the package, called on their own: the arguments    *)
(* are in arg, the result is put in ret.                                   *)
(***************************************************************************)
\* a call of fn is pending
Pending(fn) == arg.fn = fn /\ ret = NoRet
\* fn has returned
Returned(fn) == arg.fn = fn /\ ret # NoRet

(***************************************************************************)
(* DetectProvider (bedrock.go).                                            *)
(***************************************************************************)
ProviderAnthropic == "ANTHROPIC"
ProviderBedrock == "AWS"

NilConfig == [ isNil |-> TRUE ]

BaseURLs ==
  { "", "https://api.anthropic.com",
    "https://bedrock-runtime.us-east-1.amazonaws.com", "amazonaws.com" }

\* the fields of Config that provider detection can read
Configs ==
  { NilConfig } \cup
  [ isNil : {FALSE},
    BedrockDisabled : BOOLEAN,
    AWSAccessKeyID : {"", "test-access-key"},
    AWSSecretAccessKey : {"", "test-secret-key"},
    AWSProfile : {"", "test-profile"},
    BaseURL : BaseURLs ]

DetectProvider(cfg) ==
  IF cfg.isNil THEN ProviderAnthropic
  ELSE IF cfg.BedrockDisabled THEN ProviderAnthropic
  ELSE IF cfg.AWSAccessKeyID # "" /\ cfg.AWSSecretAccessKey # "" THEN ProviderBedrock
  ELSE IF cfg.BaseURL # "" /\ StrContains(cfg.BaseURL, "amazonaws.com") THEN ProviderBedrock
  ELSE ProviderAnthropic

CallDetectProvider ==
  /\ Pending("DetectProvider")
  /\ ret' = [ fn |-> "DetectProvider", provider |-> DetectProvider(arg.cfg) ]
  /\ UNCHANGED << managerVars, arg, pipelineVars, streamVars, lifeVars >>

(***************************************************************************)
(* mapStopReasonToRevenium and the stop reason buildMeteringPayload starts *)
(* from (part_006).                                                        *)
(***************************************************************************)
\* variant: an unknown stop reason is reported as an error
mapStopReasonToRevenium_DefaultError(stopReason) ==
  CASE stopReason = "end_turn" -> "END"
    [] stopReason \in {"max_tokens", "model_context_window_exceeded"} -> "TOKEN_LIMIT"
    [] stopReason = "stop_sequence" -> "END_SEQUENCE"
    [] stopReason = "tool_use" -> "END"
    [] stopReason = "pause_turn" -> "END"
    [] stopReason = "refusal" -> "ERROR"
    [] stopReason = "timeout" -> "TIMEOUT"
    [] stopReason = "error" -> "ERROR"
    [] stopReason \in {"cancelled", "canceled"} -> "CANCELLED"
    [] OTHER -> "ERROR"

mapStopReasonToRevenium(stopReason) ==
  CASE stopReason = "end_turn" -> "END"
    [] stopReason \in {"max_tokens", "model_context_window_exceeded"} -> "TOKEN_LIMIT"
    [] stopReason = "stop_sequence" -> "END_SEQUENCE"
    [] stopReason = "tool_use" -> "END"
    [] stopReason = "pause_turn" -> "END"
    [] stopReason = "refusal" -> "ERROR"
    [] stopReason = "timeout" -> "TIMEOUT"
    [] stopReason = "error" -> "ERROR"
    [] stopReason \in {"cancelled", "canceled"} -> "CANCELLED"
    [] OTHER -> "END"

\* buildMeteringPayload: stopReason := "END"; if resp.StopReason != "" it is mapped
PayloadStopReason(respStopReason) ==
  IF respStopReason # "" THEN mapStopReasonToRevenium(respStopReason) ELSE "END"

\* resp.StopReason values: the provider's stop reasons and others
StopReasons ==
  { "end_turn", "max_tokens", "model_context_window_exceeded",
    "context_window_exceeded", "stop_sequence", "tool_use", "pause_turn",
    "refusal", "timeout", "error", "cancelled", "canceled",
    "", "END", "End_Turn", "end_turn ", "length", "content_filter", "unknown" }

CallMapStopReason ==
  /\ Pending("mapStopReasonToRevenium")
  /\ ret' = [ fn |-> "mapStopReasonToRevenium",
              mapped |-> mapStopReasonToRevenium(arg.stopReason),
              payload |-> PayloadStopReason(arg.stopReason) ]
  /\ UNCHANGED << managerVars, arg, pipelineVars, streamVars, lifeVars >>

(***************************************************************************)
(* GetBedrockModelID, ConstructFullBedrockARN, ValidateBedrockBaseARN      *)
(* (bedrock.go).                                                           *)
(***************************************************************************)
LowerLetters ==
  { "a", "b", "c", "d", "e", "f", "g", "h", "i", "j", "k", "l", "m",
    "n", "o", "p", "q", "r", "s", "t", "u", "v", "w", "x", "y", "z" }
Digits == { "0", "1", "2", "3", "4", "5", "6", "7", "8", "9" }

\* s is one or more characters of the class
AllOf(s, class) ==
  Len(s) >= 1 /\ \A i \in 1..Len(s) : SubSeq(s, i, i) \in class

\* [a-z]{2}-[a-z]+-\d+
MatchesRegion(r) ==
  /\ Len(r) >= 6
  /\ AllOf(SubSeq(r, 1, 2), LowerLetters)
  /\ SubSeq(r, 3, 3) = "-"
  /\ LET rest == SubSeq(r, 4, Len(r))
         dash == StrIndex(rest, "-")
     IN  /\ dash > 1
         /\ AllOf(SubSeq(rest, 1, dash - 1), LowerLetters)
         /\ AllOf(SubSeq(rest, dash + 1, Len(rest)), Digits)

\* arnPattern: ^arn:aws:bedrock:[a-z]{2}-[a-z]+-\d+:\d{12}$
MatchesArnPattern(arnBase) ==
  /\ HasPrefix(arnBase, "arn:aws:bedrock:")
  /\ LET rest == TrimPrefix(arnBase, "arn:aws:bedrock:")
         colon == StrIndex(rest, ":")
     IN  /\ colon > 1
         /\ MatchesRegion(SubSeq(rest, 1, colon - 1))
         /\ Len(rest) - colon = 12
         /\ AllOf(SubSeq(rest, colon + 1, Len(rest)), Digits)

\* ValidateBedrockBaseARN: TRUE when it returns nil
ValidateBedrockBaseARN(arnBase) ==
  arnBase # "" /\ MatchesArnPattern(arnBase)

\* ConstructFullBedrockARN: result [arn, err]
ConstructFullBedrockARN(arnBase, modelName) ==
  IF ~ValidateBedrockBaseARN(arnBase) THEN [ arn |-> "", err |-> TRUE ]
  ELSE IF modelName = "" THEN [ arn |-> "", err |-> TRUE ]
  ELSE [ arn |-> arnBase \o ":inference-profile/us.anthropic." \o modelName \o "-v1:0",
         err |-> FALSE ]

\* variant: the prefix is added without looking at the name
GetBedrockModelID_AlwaysPrefix(modelName, config) ==
  IF HasPrefix(modelName, "arn:aws:bedrock:") THEN modelName
  ELSE IF /\ ~config.isNil
          /\ config.AWSModelARNBase # ""
          /\ ~ConstructFullBedrockARN(config.AWSModelARNBase, modelName).err
       THEN ConstructFullBedrockARN(config.AWSModelARNBase, modelName).arn
  ELSE "anthropic." \o modelName

GetBedrockModelID(modelName, config) ==
  IF HasPrefix(modelName, "arn:aws:bedrock:") THEN modelName
  ELSE IF /\ ~config.isNil
          /\ config.AWSModelARNBase # ""
          /\ ~ConstructFullBedrockARN(config.AWSModelARNBase, modelName).err
       THEN ConstructFullBedrockARN(config.AWSModelARNBase, modelName).arn
  ELSE IF HasPrefix(modelName, "anthropic.") THEN modelName
  ELSE "anthropic." \o modelName

\* model names of the direct API, as callers and the tests pass them
DirectModelNames ==
  { "claude-3-opus-20240229", "claude-3-5-haiku-20241022",
    "claude-3-7-sonnet-latest", "claude-sonnet-4-20250514", PlainModel,
    "claude-instant-v1", "claude-v1.3", "claude-2:1", "models/claude-3-haiku", "" }

\* model identifiers already in a gateway form
GatewayModelIDs ==
  { "anthropic.claude-3-opus-20240229",
    "anthropic.claude-3-5-haiku-20241022-v1:0",
    "arn:aws:bedrock:us-east-1:237436736089:inference-profile/us.anthropic.claude-sonnet-4-20250514-v1:0",
    "arn:aws:bedrock:eu-west-1:123456789:inference-profile/eu.anthropic.claude-3-opus-20240229-v1:0" }

ValidBaseARN == "arn:aws:bedrock:us-east-1:123456789012"

\* Config.AWSModelARNBase values: unset, valid, too long, too short, malformed
BaseARNs ==
  { "", ValidBaseARN,
    "arn:aws:bedrock:us-east-1:123456789012:inference-profile/us.anthropic.claude",
    "arn:aws:bedrock", "arn:aws:bedrock:us-gov-west-1:123456789012",
    "arn:aws:bedrock:us-east-1:12345" }

ARNConfigs == { NilConfig } \cup [ isNil : {FALSE}, AWSModelARNBase : BaseARNs ]

NoConversion == [ model |-> "", err |-> FALSE ]

\* modelID := GetBedrockModelID(string(params.Model), ba.config)
CallGetBedrockModelID ==
  /\ Pending("GetBedrockModelID")
  /\ ret' = [ fn |-> "GetBedrockModelID", step |-> "converted",
              id |-> GetBedrockModelID(arg.modelName, arg.config),
              again |-> "", back |-> NoConversion ]
  /\ UNCHANGED << managerVars, arg, pipelineVars, streamVars, lifeVars >>

\* the result is given to GetBedrockModelID once more
CallGetBedrockModelIDAgain ==
  /\ Returned("GetBedrockModelID")
  /\ ret.step = "converted"
  /\ ret' = [ ret EXCEPT !.step = "again",
                         !.again = GetBedrockModelID(ret.id, arg.config) ]
  /\ UNCHANGED << managerVars, arg, pipelineVars, streamVars, lifeVars >>

\* the result is converted back with ConvertBedrockARNToAnthropicModel
CallConvertBack ==
  /\ Returned("GetBedrockModelID")
  /\ ret.step = "converted"
  /\ ret' = [ ret EXCEPT !.step = "back",
                         !.back = ConvertBedrockARNToAnthropicModel(ret.id) ]
  /\ UNCHANGED << managerVars, arg, pipelineVars, streamVars, lifeVars >>

\* inputs of ConvertBedrockARNToAnthropicModel: every form a caller can pass
BedrockModels ==
  Models \cup DirectModelNames \cup GatewayModelIDs \cup
  { "arn:aws:bedrock:ap-southeast-1:123456789:inference-profile/ap.anthropic.claude-3-5-haiku-20241022-v2:0",
    "arn:aws:bedrock:us-east-1::foundation-model/anthropic.claude-3-sonnet-20240229-v1:0",
    "arn:aws:bedrock:invalid-format",
    "inference-profile:claude-3-haiku",
    "us.anthropic.claude-3-haiku-v1:0",
    "anthropic.claude-v2:1" }

\* anthropicModel, err := ConvertBedrockARNToAnthropicModel(string(params.Model))
CallConvert ==
  /\ Pending("ConvertBedrockARNToAnthropicModel")
  /\ ret' = [ fn |-> "ConvertBedrockARNToAnthropicModel",
              model |-> ConvertBedrockARNToAnthropicModel(arg.bedrockModel).model,
              err |-> ConvertBedrockARNToAnthropicModel(arg.bedrockModel).err ]
  /\ UNCHANGED << managerVars, arg, pipelineVars, streamVars, lifeVars >>

(***************************************************************************)
(* NormalizeReveniumBaseURL, the value loadFromEnv gives it, and the URL   *)
(* sendMeteringRequest posts to (part_007, part_006).                      *)
(***************************************************************************)
DefaultReveniumBaseURL == "https://api.revenium.ai"

HasSuffix(s, suffix) ==
  Len(s) >= Len(suffix) /\ SubSeq(s, Len(s) - Len(suffix) + 1, Len(s)) = suffix

DropLast(s, n) == SubSeq(s, 1, Len(s) - n)

\* variant: a trailing slash is left in place
NormalizeReveniumBaseURL_KeepSlash(baseURL) ==
  IF baseURL = "" THEN DefaultReveniumBaseURL
  ELSE IF HasSuffix(baseURL, "/meter/v2") THEN DropLast(baseURL, 9)
  ELSE IF HasSuffix(baseURL, "/meter") THEN DropLast(baseURL, 6)
  ELSE IF HasSuffix(baseURL, "/v2") THEN DropLast(baseURL, 3)
  ELSE baseURL

NormalizeReveniumBaseURL(baseURL) ==
  IF baseURL = "" THEN DefaultReveniumBaseURL
  ELSE LET b == IF HasSuffix(baseURL, "/") THEN DropLast(baseURL, 1) ELSE baseURL
       IN  IF HasSuffix(b, "/meter/v2") THEN DropLast(b, 9)
           ELSE IF HasSuffix(b, "/meter") THEN DropLast(b, 6)
           ELSE IF HasSuffix(b, "/v2") THEN DropLast(b, 3)
           ELSE b

\* getEnvOrDefault("REVENIUM_METERING_BASE_URL", "https://api.revenium.ai")
getEnvOrDefault(value, defaultValue) == IF value # "" THEN value ELSE defaultValue

\* sendMeteringRequest: the request URL built from config.ReveniumBaseURL
MeteringURL(reveniumBaseURL) ==
  (IF reveniumBaseURL = "" THEN DefaultReveniumBaseURL ELSE reveniumBaseURL)
    \o "/meter/v2/ai/completions"

Origins ==
  { DefaultReveniumBaseURL, "https://api.dev.hcapp.io", "http://localhost:8080" }

\* what may follow the origin in REVENIUM_METERING_BASE_URL
URLForms == { "", "/", "/meter", "/meter/", "/meter/v2", "/meter/v2/", "/v2", "/v2/" }

\* loadFromEnv sets c.ReveniumBaseURL; sendMeteringRequest builds the URL from it
CallNormalizeReveniumBaseURL ==
  /\ Pending("NormalizeReveniumBaseURL")
  /\ LET direct == NormalizeReveniumBaseURL(arg.origin \o arg.form)
         loaded == NormalizeReveniumBaseURL(
                     getEnvOrDefault(arg.origin \o arg.form, DefaultReveniumBaseURL))
     IN  ret' = [ fn |-> "NormalizeReveniumBaseURL", normalized |-> direct,
                  ReveniumBaseURL |-> loaded, url |-> MeteringURL(loaded) ]
  /\ UNCHANGED << managerVars, arg, pipelineVars, streamVars, lifeVars >>

(***************************************************************************)
(* Captured text (prompt_extractor.go).  A Go string is bytes; a text here *)
(* is pad bytes of ASCII, then the bytes of a window given one by one by   *)
(* their UTF-8 class, then tail bytes of ASCII, then a literal suffix, so  *)
(* that texts as long as the caps are computed with byte by byte.          *)
(* Classes: "A" ASCII, "L2" "L3" "L4" the lead byte of a 2, 3, 4 byte      *)
(* code point, "C" a continuation byte (10xxxxxx), "X" a byte that no      *)
(* UTF-8 text has.                                                         *)
(***************************************************************************)
MaxPromptLength == 50000
TruncationMarker == "...[TRUNCATED]"

ByteClasses == { "A", "L2", "L3", "L4", "C", "X" }

\* len(s)
TextLen(s) == s.pad + Len(s.bytes) + s.tail + Len(s.suffix)

\* the class of s[i], i counted from 0 as in Go, for i inside pad, window and tail
ByteAt(s, i) ==
  IF i >= s.pad /\ i < s.pad + Len(s.bytes) THEN s.bytes[i - s.pad + 1] ELSE "A"

\* s[:m], for a text without suffix
Prefix(s, m) ==
  IF m <= s.pad THEN [ EmptyText EXCEPT !.pad = m ]
  ELSE IF m <= s.pad + Len(s.bytes)
  THEN [ EmptyText EXCEPT !.pad = s.pad, !.bytes = SubSeq(s.bytes, 1, m - s.pad) ]
  ELSE [ EmptyText EXCEPT !.pad = s.pad, !.bytes = s.bytes,
                          !.tail = m - s.pad - Len(s.bytes) ]

\* s + suffix
WithSuffix(s, suffix) == [ s EXCEPT !.suffix = @ \o suffix ]

\* bytes the code point that starts at b[i] takes, 0 when b[i] starts none
\* (utf8.DecodeRune gives RuneError with width 1 there)
RuneBytes(b, i) ==
  LET need == CASE b[i] = "A" -> 1 [] b[i] = "L2" -> 2 [] b[i] = "L3" -> 3
                [] b[i] = "L4" -> 4 [] OTHER -> 0
  IN  IF /\ need >= 1
         /\ i + need - 1 <= Len(b)
         /\ \A k \in (i + 1)..(i + need - 1) : b[k] = "C"
      THEN need ELSE 0

RECURSIVE ValidFrom(_, _)
ValidFrom(b, i) ==
  IF i > Len(b) THEN TRUE
  ELSE IF RuneBytes(b, i) = 0 THEN FALSE
  ELSE ValidFrom(b, i + RuneBytes(b, i))

\* utf8.ValidString(s): pad and tail are ASCII
ValidString(s) == ValidFrom(s.bytes, 1)

\* the loop of truncateUTF8Safe: back up while s[maxBytes] is a continuation byte
RECURSIVE BackUp(_, _)
BackUp(s, maxBytes) ==
  IF maxBytes > 0 /\ maxBytes < TextLen(s) /\ ByteAt(s, maxBytes) = "C"
  THEN BackUp(s, maxBytes - 1)
  ELSE maxBytes

\* the rune loop of truncateUTF8Safe over the window: the bytes appended to
\* result from b[i] on when room bytes are left; a byte that starts no code
\* point is the rune U+FFFD, three bytes; broke when a rune did not fit
RECURSIVE RuneLoop(_, _, _)
RuneLoop(b, i, room) ==
  IF i > Len(b) THEN [ out |-> << >>, room |-> room, broke |-> FALSE ]
  ELSE LET w == RuneBytes(b, i)
           runeLen == IF w = 0 THEN 3 ELSE w
           enc == IF w = 0 THEN << "L3", "C", "C" >> ELSE SubSeq(b, i, i + w - 1)
           step == IF w = 0 THEN 1 ELSE w
       IN  IF runeLen > room THEN [ out |-> << >>, room |-> room, broke |-> TRUE ]
           ELSE LET r == RuneLoop(b, i + step, room - runeLen)
                IN  [ r EXCEPT !.out = enc \o @ ]

\* the fallback of truncateUTF8Safe: runes of s appended while they fit maxBytes
RuneFallback(s, maxBytes) ==
  IF s.pad >= maxBytes THEN [ EmptyText EXCEPT !.pad = maxBytes ]
  ELSE LET r == RuneLoop(s.bytes, 1, maxBytes - s.pad)
       IN  [ EmptyText EXCEPT !.pad = s.pad, !.bytes = r.out,
               !.tail = IF r.broke THEN 0
                        ELSE IF s.tail < r.room THEN s.tail ELSE r.room ]

\* variant: the cut is made at maxBytes whatever byte is there
truncateUTF8Safe_NoBackUp(s, maxBytes) ==
  IF TextLen(s) <= maxBytes THEN s ELSE Prefix(s, maxBytes)

truncateUTF8Safe(s, maxBytes) ==
  IF TextLen(s) <= maxBytes THEN s
  ELSE LET result == Prefix(s, BackUp(s, maxBytes))
       IN  IF ValidString(result) THEN result
           ELSE RuneFallback(s, BackUp(s, maxBytes))

\* the truncation every Extract function applies to a field: when content is
\* longer than limit it is cut at limit - len(TruncationMarker) and the
\* marker is appended
TruncateWithMarker(content, limit) ==
  IF TextLen(content) > limit
  THEN [ text |-> WithSuffix(truncateUTF8Safe(content, limit - Len(TruncationMarker)),
                             TruncationMarker),
         truncated |-> TRUE ]
  ELSE [ text |-> content, truncated |-> FALSE ]

\* halfLimit := MaxPromptLength / 2
halfLimit == MaxPromptLength \div 2

\* PromptData{}
NoPromptData ==
  [ SystemPrompt |-> EmptyText, InputMessages |-> << >>, OutputResponse |-> EmptyText,
    PromptsTruncated |-> FALSE ]

\* the loop over params.Messages: userMessages, each content cut at halfLimit
RECURSIVE userMessagesOf(_)
userMessagesOf(messages) ==
  IF messages = << >> THEN << >>
  ELSE LET msg == Head(messages)
           cut == TruncateWithMarker(msg.content, halfLimit)
       IN  IF msg.role # ""
           THEN << [ role |-> msg.role, content |-> cut.text, truncated |-> cut.truncated ] >>
                  \o userMessagesOf(Tail(messages))
           ELSE userMessagesOf(Tail(messages))

\* ExtractPromptsFromParams.  params.System is one text block and the content
\* of a message one text; InputMessages is kept as the array that is marshalled
ExtractPromptsFromParams(params) ==
  LET sys == TruncateWithMarker(params.System, MaxPromptLength)
      userMessages == userMessagesOf(params.Messages)
  IN  [ SystemPrompt |-> IF params.System # EmptyText THEN sys.text ELSE EmptyText,
        InputMessages |-> userMessages,
        OutputResponse |-> EmptyText,
        PromptsTruncated |->
          \/ (params.System # EmptyText /\ sys.truncated)
          \/ \E i \in 1..Len(userMessages) : userMessages[i].truncated ]

\* variant: the flag of the response data is that of the response alone
ExtractResponseContent_OwnFlag(respText, promptsTruncated) ==
  IF respText = EmptyText
  THEN NoPromptData
  ELSE LET cut == TruncateWithMarker(respText, MaxPromptLength)
       IN  [ NoPromptData EXCEPT !.OutputResponse = cut.text,
               !.PromptsTruncated = cut.truncated ]

\* ExtractResponseContent for a response with one text block (EmptyText: no text)
ExtractResponseContent(respText, promptsTruncated) ==
  IF respText = EmptyText
  THEN [ NoPromptData EXCEPT !.PromptsTruncated = promptsTruncated ]
  ELSE LET cut == TruncateWithMarker(respText, MaxPromptLength)
       IN  [ NoPromptData EXCEPT !.OutputResponse = cut.text,
               !.PromptsTruncated = promptsTruncated \/ cut.truncated ]

ExtractStreamingResponseContent(accumulatedContent, promptsTruncated) ==
  IF accumulatedContent = EmptyText
  THEN [ NoPromptData EXCEPT !.PromptsTruncated = promptsTruncated ]
  ELSE LET cut == TruncateWithMarker(accumulatedContent, MaxPromptLength)
       IN  [ NoPromptData EXCEPT !.OutputResponse = cut.text,
               !.PromptsTruncated = promptsTruncated \/ cut.truncated ]

\* number of bytes of the window that start no code point
RECURSIVE InvalidBytes(_, _)
InvalidBytes(b, i) ==
  IF i > Len(b) THEN 0
  ELSE IF RuneBytes(b, i) = 0 THEN 1 + InvalidBytes(b, i + 1)
  ELSE InvalidBytes(b, i + RuneBytes(b, i))

\* len of json.Marshal of a string of letters and code points outside ASCII:
\* two quotes, the bytes as they are, and the six characters of the escape
\* of U+FFFD for a byte that starts no code point
MarshalStringLen(s) == 2 + TextLen(s) + 5 * InvalidBytes(s.bytes, 1)

\* len of json.Marshal(userMessages): [{"content":...,"role":...},...]
RECURSIVE MarshalObjectsLen(_)
MarshalObjectsLen(userMessages) ==
  IF userMessages = << >> THEN 0
  ELSE Len("{\"content\":") + MarshalStringLen(Head(userMessages).content)
         + Len(",\"role\":") + 2 + Len(Head(userMessages).role) + Len("}")
         + MarshalObjectsLen(Tail(userMessages))

\* len(data.InputMessages): empty when there is no message
InputMessagesLen(userMessages) ==
  IF userMessages = << >> THEN 0
  ELSE 2 + MarshalObjectsLen(userMessages) + (Len(userMessages) - 1)

\* every window of MaxWindow bytes
Windows == [ 1..MaxWindow -> ByteClasses ]

\* texts whose window lies across the place where a field of the given limit
\* is cut, of a length just under, at and over the limit
TextsAround(limit) ==
  { [ pad |-> limit - Len(TruncationMarker) - j, bytes |-> w,
      tail |-> total - (limit - Len(TruncationMarker) - j) - MaxWindow,
      suffix |-> "" ] :
      j \in 0..MaxWindow, w \in Windows,
      total \in { limit - 1, limit, limit + 1, limit + MaxWindow } }

\* ASCII texts of a given length
Ascii(n) == [ EmptyText EXCEPT !.pad = n ]
MessageTexts == { Ascii(n) : n \in { 10, 20000, halfLimit, halfLimit + 1 } }

MessageLists(max) ==
  UNION { [ 1..n -> [ role : {"user", "assistant"}, content : MessageTexts ] ] :
            n \in 1..max }

\* data := ExtractPromptsFromParams(params)
CallExtractPromptsFromParams ==
  /\ Pending("ExtractPromptsFromParams")
  /\ LET data == ExtractPromptsFromParams(arg.params)
     IN  ret' = [ fn |-> "ExtractPromptsFromParams", data |-> data,
                  lenSystemPrompt |-> TextLen(data.SystemPrompt),
                  lenInputMessages |-> InputMessagesLen(data.InputMessages),
                  lenOutputResponse |-> TextLen(data.OutputResponse) ]
  /\ UNCHANGED << managerVars, arg, pipelineVars, streamVars, lifeVars >>

\* responseData := ExtractResponseContent(resp, promptData.PromptsTruncated)
CallExtractResponseContent ==
  /\ Pending("ExtractResponseContent")
  /\ LET data == ExtractResponseContent(arg.text, arg.promptsTruncated)
     IN  ret' = [ fn |-> "ExtractResponseContent", data |-> data,
                  lenSystemPrompt |-> TextLen(data.SystemPrompt),
                  lenInputMessages |-> InputMessagesLen(data.InputMessages),
                  lenOutputResponse |-> TextLen(data.OutputResponse) ]
  /\ UNCHANGED << managerVars, arg, pipelineVars, streamVars, lifeVars >>

\* responseData := ExtractStreamingResponseContent(accumulatedContent, ...)
CallExtractStreamingResponseContent ==
  /\ Pending("ExtractStreamingResponseContent")
  /\ LET data == ExtractStreamingResponseContent(arg.text, arg.promptsTruncated)
     IN  ret' = [ fn |-> "ExtractStreamingResponseContent", data |-> data,
                  lenSystemPrompt |-> TextLen(data.SystemPrompt),
                  lenInputMessages |-> InputMessagesLen(data.InputMessages),
                  lenOutputResponse |-> TextLen(data.OutputResponse) ]
  /\ UNCHANGED << managerVars, arg, pipelineVars, streamVars, lifeVars >>

(***************************************************************************)
(* DetectVisionContent (part_007).  A content block is a record: OfImage   *)
(* tells an image block, source is "base64" or "url".                      *)
(***************************************************************************)
NoVision ==
  [ HasVisionContent |-> FALSE, ImageCount |-> 0, TotalImageSizeBytes |-> 0,
    MediaTypes |-> << >> ]

containsString(slice, val) == \E i \in 1..Len(slice) : slice[i] = val

\* the padding characters counted at the end of src.Data
PaddingOf(data) ==
  IF Len(data) > 0 /\ SubSeq(data, Len(data), Len(data)) = "="
  THEN IF Len(data) > 1 /\ SubSeq(data, Len(data) - 1, Len(data) - 1) = "="
       THEN 2 ELSE 1
  ELSE 0

\* variant: the padding is not taken off
processBase64ImageSource_NoPadding(src, result) ==
  [ result EXCEPT
      !.MediaTypes = IF src.MediaType # "" /\ ~containsString(@, src.MediaType)
                     THEN Append(@, src.MediaType) ELSE @,
      !.TotalImageSizeBytes = IF src.Data # "" THEN @ + (Len(src.Data) * 3) \div 4
                              ELSE @ ]

processBase64ImageSource(src, result) ==
  [ result EXCEPT
      !.MediaTypes = IF src.MediaType # "" /\ ~containsString(@, src.MediaType)
                     THEN Append(@, src.MediaType) ELSE @,
      !.TotalImageSizeBytes =
         IF src.Data # "" THEN @ + ((Len(src.Data) - PaddingOf(src.Data)) * 3) \div 4
         ELSE @ ]

processImageBlock(imgBlock, result) ==
  LET counted == [ result EXCEPT !.HasVisionContent = TRUE, !.ImageCount = @ + 1 ]
  IN  IF imgBlock.source = "base64" THEN processBase64ImageSource(imgBlock, counted)
      ELSE counted

\* the blocks of all messages in the order the two loops visit them
RECURSIVE AllBlocks(_)
AllBlocks(messages) ==
  IF messages = << >> THEN << >> ELSE Head(messages) \o AllBlocks(Tail(messages))

RECURSIVE VisionLoop(_, _)
VisionLoop(blocks, result) ==
  IF blocks = << >> THEN result
  ELSE VisionLoop(Tail(blocks),
                  IF Head(blocks).OfImage THEN processImageBlock(Head(blocks), result)
                  ELSE result)

DetectVisionContent(params) == VisionLoop(AllBlocks(params.Messages), NoVision)

TextBlock == [ OfImage |-> FALSE, source |-> "none", MediaType |-> "", Data |-> "" ]
URLImage == [ OfImage |-> TRUE, source |-> "url", MediaType |-> "", Data |-> "" ]
Base64Image(mediaType, data) ==
  [ OfImage |-> TRUE, source |-> "base64", MediaType |-> mediaType, Data |-> data ]

\* the messages a request is made of
VisionMessages ==
  { << TextBlock >>,
    << URLImage >>,
    << Base64Image("image/png", "QUJD") >>,
    << TextBlock, Base64Image("image/jpeg", "QQ==") >>,
    << Base64Image("image/png", "QUI="), Base64Image("image/png", "QUJDRA") >>,
    << Base64Image("", "QUJDRA==") >>,
    << Base64Image("image/jpeg", "") >>,
    << URLImage, Base64Image("image/gif", "="), Base64Image("image/png", "QQ==") >> }

VisionParams(max) ==
  [ Messages : UNION { [ 1..n -> VisionMessages ] : n \in 0..max } ]

\* visionResult := DetectVisionContent(*params)
CallDetectVisionContent ==
  /\ Pending("DetectVisionContent")
  /\ ret' = [ fn |-> "DetectVisionContent", result |-> DetectVisionContent(arg.params) ]
  /\ UNCHANGED << managerVars, arg, pipelineVars, streamVars, lifeVars >>

(***************************************************************************)
(* buildMeteringPayload: the computed fields, the caller's metadata, the   *)
(* vision attributes.  A payload and a metadata map are functions from     *)
(* keys to values; a nil metadata map reads like the empty map.            *)
(***************************************************************************)
\* variant: the operation type is taken from the metadata too
MetadataKeys_WithOperationType ==
  { "organizationId", "transactionId", "errorReason", "operationType" }

\* variant: the stop reason is taken from the metadata too
MetadataKeys_WithStopReason ==
  { "organizationId", "transactionId", "errorReason", "stopReason" }

\* the keys buildMeteringPayload looks up in the metadata
MetadataKeys ==
  { "organizationId", "productId", "taskType", "agent", "subscriptionId", "traceId",
    "subscriber", "taskId", "responseQualityScore", "transactionId", "traceType",
    "traceName", "environment", "region", "retryNumber", "credentialAlias",
    "parentTransactionId", "modelSource", "mediationLatency", "temperature",
    "systemFingerprint", "inputTokenCost", "outputTokenCost",
    "cacheCreationTokenCost", "cacheReadTokenCost", "totalCost", "errorReason" }

\* if v, ok := metadata[k]; ok { payload[k] = v }, for every key looked up
CopyMetadata(payload, metadata) ==
  LET copied == DOMAIN metadata \cap MetadataKeys
  IN  [ k \in DOMAIN payload \cup copied |->
          IF k \in copied THEN metadata[k] ELSE payload[k] ]

BuildVisionAttributes(result) ==
  [ vision_image_count |-> result.ImageCount,
    vision_total_size_bytes |-> result.TotalImageSizeBytes,
    vision_media_types |-> result.MediaTypes ]

\* params == nil
NilParams == [ isNil |-> TRUE ]

buildMeteringPayload(resp, metadata, isStreamed, prov, params) ==
  LET payload ==
        [ stopReason |-> PayloadStopReason(resp.StopReason),
          costType |-> "AI",
          isStreamed |-> isStreamed,
          operationType |-> "CHAT",
          inputTokenCount |-> resp.InputTokens,
          outputTokenCount |-> resp.OutputTokens,
          reasoningTokenCount |-> 0,
          cacheCreationTokenCount |-> 0,
          cacheReadTokenCount |-> 0,
          totalTokenCount |-> resp.InputTokens + resp.OutputTokens,
          model |-> resp.Model,
          transactionId |-> "generateRequestID()",
          provider |-> normalizeProviderName(prov),
          timeToFirstToken |-> 0,
          middlewareSource |-> "GetMiddlewareSource()" ]
      copied == CopyMetadata(payload, metadata)
      errored == IF "errorReason" \in DOMAIN metadata
                 THEN [ copied EXCEPT !["stopReason"] = "ERROR" ] ELSE copied
      visionResult == IF params = NilParams THEN NoVision ELSE DetectVisionContent(params)
  IN  IF visionResult.HasVisionContent
      THEN [ hasVisionContent |-> TRUE, attributes |-> BuildVisionAttributes(visionResult) ]
             @@ errored
      ELSE errored

\* the keys of the caller's metadata: keys that are looked up, among them
\* transactionId, which is computed too; the keys of computed fields; keys
\* that buildMeteringPayload does not know
CallerKeys ==
  { "organizationId", "transactionId", "errorReason", "operationType",
    "operationSubtype", "stopReason", "customField1" }

CallerValue(k) ==
  IF k = "operationType" THEN "chat-completion"
  ELSE IF k = "stopReason" THEN "CANCELLED"
  ELSE "caller-" \o k

CallerMetadata == { [ k \in ks |-> CallerValue(k) ] : ks \in SUBSET CallerKeys }

Responses ==
  [ StopReason : { "", "end_turn", "max_tokens", "refusal", "length" },
    Model : { PlainModel }, InputTokens : { 3 }, OutputTokens : { 4 } ]

PayloadParams ==
  { NilParams, [ Messages |-> << << TextBlock >> >> ],
    [ Messages |-> << << TextBlock, Base64Image("image/png", "QUJD") >> >> ] }

\* payload := buildMeteringPayload(resp, metadata, isStreamed, duration, provider, startTime, params)
CallBuildMeteringPayload ==
  /\ Pending("buildMeteringPayload")
  /\ ret' = [ fn |-> "buildMeteringPayload",
              payload |-> buildMeteringPayload(arg.resp, arg.metadata, arg.isStreamed,
                                               arg.provider, arg.params) ]
  /\ UNCHANGED << managerVars, arg, pipelineVars, streamVars, lifeVars >>

(***************************************************************************)
(* Prompt capture: what createMessageAnthropic and createMessageBedrock    *)
(* extract when config.CapturePrompts is set, and the keys the dispatch    *)
(* goroutines add to the payload.                                          *)
(***************************************************************************)
\* variant: the prompts are extracted whatever the flag is
ExtractIfCapture_Always(capture, params) == ExtractPromptsFromParams(params)

\* if m.config.CapturePrompts { data := ExtractPromptsFromParams(params); promptData = &data }
ExtractIfCapture(capture, params) ==
  IF capture THEN ExtractPromptsFromParams(params) ELSE NilPromptData

\* if promptData != nil && m.config.CapturePrompts { responseData := ExtractResponseContent(...) ... }
WithResponseContent(promptData, capture, respText) ==
  IF promptData # NilPromptData /\ capture
  THEN LET responseData == ExtractResponseContent(respText, promptData.PromptsTruncated)
       IN  [ promptData EXCEPT !.OutputResponse = responseData.OutputResponse,
                               !.PromptsTruncated = responseData.PromptsTruncated ]
  ELSE promptData

\* AddPromptDataToPayload: a key is written for a field that is not empty
AddPromptDataToPayload(payload, data) ==
  LET p1 == IF data.SystemPrompt # EmptyText
            THEN [ systemPrompt |-> data.SystemPrompt ] @@ payload ELSE payload
      p2 == IF data.InputMessages # << >>
            THEN [ inputMessages |-> data.InputMessages ] @@ p1 ELSE p1
      p3 == IF data.OutputResponse # EmptyText
            THEN [ outputResponse |-> data.OutputResponse ] @@ p2 ELSE p2
  IN  IF data.PromptsTruncated THEN [ promptsTruncated |-> TRUE ] @@ p3 ELSE p3

\* the payload of sendMeteringDataWithPrompts
PayloadWithPrompts(payload, promptData) ==
  IF promptData # NilPromptData THEN AddPromptDataToPayload(payload, promptData)
  ELSE payload

\* the prompt keys the goroutine of StreamingWrapper.Close adds to its payload
StreamPayloadWithPrompts(payload, promptData, accumulatedContent) ==
  IF promptData # NilPromptData
  THEN LET responseData ==
             ExtractStreamingResponseContent(accumulatedContent, promptData.PromptsTruncated)
       IN  AddPromptDataToPayload(payload,
             [ promptData EXCEPT !.OutputResponse = responseData.OutputResponse,
                                 !.PromptsTruncated = responseData.PromptsTruncated ])
  ELSE payload

PromptKeys == { "systemPrompt", "inputMessages", "outputResponse", "promptsTruncated" }

\* requests and responses of the captured calls: texts under and over the limits
CaptureParams ==
  [ System : { EmptyText, Ascii(10), Ascii(MaxPromptLength + 1) },
    Messages : { << >>,
                 << [ role |-> "user", content |-> Ascii(10) ] >>,
                 << [ role |-> "user", content |-> Ascii(halfLimit + 1) ] >>,
                 << [ role |-> "assistant", content |-> Ascii(halfLimit + 1) ],
                    [ role |-> "user", content |-> Ascii(10) ] >> } ]

CaptureTexts == { EmptyText, Ascii(10), Ascii(MaxPromptLength), Ascii(MaxPromptLength + 1) }

CaptureMetadata ==
  { [ k \in ks |-> "caller-" \o k ] : ks \in { {}, { "organizationId", "systemPrompt" } } }

CaptureResponse ==
  [ StopReason |-> "end_turn", Model |-> PlainModel, InputTokens |-> 3, OutputTokens |-> 4 ]

\* a call with prompt capture on or off, from the extraction of the request
\* to the payload handed to sendMeteringWithRetry: CreateMessage (direct or
\* gateway), or a stream whose session has accumulated arg.text when closed
CallCapture ==
  /\ Pending("capture")
  /\ LET promptData == ExtractIfCapture(arg.CapturePrompts, arg.params)
         payload == buildMeteringPayload(CaptureResponse, arg.metadata, arg.isStreamed,
                                         arg.provider, NilParams)
     IN  ret' = [ fn |-> "capture",
                  payload |->
                    IF arg.isStreamed
                    THEN StreamPayloadWithPrompts(payload, promptData, arg.text)
                    ELSE PayloadWithPrompts(payload,
                           WithResponseContent(promptData, arg.CapturePrompts, arg.text)) ]
  /\ UNCHANGED << managerVars, arg, pipelineVars, streamVars, lifeVars >>

(***************************************************************************)
(* The streaming session: createMessageStreamAnthropic and                 *)
(* createMessageStreamBedrock wrap the provider's stream in a              *)
(* StreamingWrapper; the caller drives it with Next, Current and Close,    *)
(* and Close starts the goroutine that builds and sends the payload.       *)
(***************************************************************************)
\* time.Duration.Milliseconds(): whole milliseconds of a nanosecond count
Milliseconds(d) == d \div 1000000

\* the time that can pass between two steps of the session
Elapsed == { 600000 }

RECURSIVE TotalChars(_)
\* for _, msg := range params.Messages { totalChars += len(msg.Content) * 10 }
\* params is the sequence of the content-block counts of the messages
TotalChars(params) ==
  IF params = << >> THEN 0
  ELSE Head(params) * 10 + TotalChars(Tail(params))

estimateInputTokens(params) ==
  LET estimatedTokens == TotalChars(params) \div 4
  IN  IF estimatedTokens < 1 THEN 10 ELSE estimatedTokens

\* variant: the estimate is not stored in the wrapper
SetInputTokens_Skip(w, tokens) == w

SetInputTokens(w, tokens) ==
  [ w EXCEPT !.inputTokens = tokens, !.totalTokens = tokens + w.outputTokens ]

\* Delta.Text is a non-empty string
isContentEvent(event) == event.Text # ""

isMessageDeltaEvent(event) == event.Type = "message_delta"

\* nil when the Usage field is the zero value
UsageIsNil(event) == event.Usage = NoEvent.Usage

extractStopReasonFromEvent(event) == event.StopReason

\* the requests a stream is opened with: the content-block counts of the messages
StreamParams == { << >>, << 1 >>, << 1, 2 >> }

\* the events the provider's stream can yield
StreamEvents ==
  { [ Type |-> "content_block_delta", Text |-> "Hi", Usage |-> NoEvent.Usage, StopReason |-> "" ],
    [ Type |-> "content_block_delta", Text |-> "", Usage |-> NoEvent.Usage, StopReason |-> "" ],
    [ Type |-> "message_delta", Text |-> "",
      Usage |-> [ InputTokens |-> 7, OutputTokens |-> 5 ], StopReason |-> "end_turn" ],
    [ Type |-> "message_delta", Text |-> "",
      Usage |-> [ InputTokens |-> 0, OutputTokens |-> 3 ], StopReason |-> "" ],
    [ Type |-> "message_delta", Text |-> "", Usage |-> NoEvent.Usage, StopReason |-> "max_tokens" ] }

\* m.config.CapturePrompts of the client the calls are made through: the
\* global client when Initialize has built one, a zero Config otherwise
CapturePrompts ==
  global.globalClient # NilClient /\ global.globalClient.config.CapturePrompts

\* the texts of a request given by the content-block counts of its messages:
\* no system prompt, user messages, ten bytes of text for a block
PromptsOf(params) ==
  [ System |-> EmptyText,
    Messages |-> [ i \in 1..Len(params) |->
                     [ role |-> "user", content |-> Ascii(10 * params[i]) ] ] ]

\* wrapper := &StreamingWrapper{..., startTime: time.Now(), provider: ...};
\* wrapper.SetInputTokens(estimateInputTokens(params))
OpenStream ==
  /\ ~sw.open
  /\ \E params \in StreamParams :
     \E prov \in IF provider = "AWS" THEN {"AWS", "Anthropic"} ELSE {"Anthropic"} :
       sw' = SetInputTokens([ NoWrapper EXCEPT !.open = TRUE, !.provider = prov,
                                               !.params = params, !.startTime = clock,
                                               !.promptData =
                                                  ExtractIfCapture(CapturePrompts,
                                                                   PromptsOf(params)) ],
                            estimateInputTokens(params))
  /\ UNCHANGED << managerVars, arg, ret, clock, metering, pipelineVars, lifeVars >>

\* StreamingWrapper.Next: nextMethod.Call(nil) on the wrapped stream.  The
\* direct provider's stream has Next() bool: it decodes its next event,
\* keeps it, counts it and remembers the types it has yielded.  The gateway's
\* *BedrockStreamingWrapper has Next(ctx context.Context) bool: MethodByName
\* finds it and reflect's Call with no argument panics in the caller
\* ("reflect: Call with too few input arguments"); nothing in Next recovers.
StreamNext ==
  /\ sw.open
  /\ ~sw.streamClosed
  /\ ~sw.panicked
  /\ \/ /\ sw.provider # "AWS"
        /\ sw.yielded < MaxEvents
        /\ \E event \in StreamEvents :
             sw' = [ sw EXCEPT !.yielded = @ + 1, !.types = @ \cup { event.Type },
                              !.cur = event,
                              !.fragments = IF sw.promptData # NilPromptData
                                            THEN WithSuffix(@, event.Text) ELSE @ ]
     \/ /\ sw.provider = "AWS"
        /\ sw' = [ sw EXCEPT !.panicked = TRUE ]
  /\ UNCHANGED << managerVars, arg, ret, clock, metering, pipelineVars, lifeVars >>

\* extractTextFromContentEvent: Delta.Text
extractTextFromContentEvent(event) == event.Text

\* if isContentEvent(event) { ...; if sw.promptData != nil
\*   { if text := extractTextFromContentEvent(event); text != "" { sw.accumulatedContent += text } } }
AccumulateContent(w) ==
  IF /\ isContentEvent(w.cur)
     /\ w.promptData # NilPromptData
     /\ extractTextFromContentEvent(w.cur) # ""
  THEN [ w EXCEPT !.accumulatedContent = WithSuffix(@, extractTextFromContentEvent(w.cur)) ]
  ELSE w

\* variant: the counts of a usage event are added to the counters
CurrentOf_Accumulate(w, now) ==
  LET event == w.cur
      first == AccumulateContent(IF isContentEvent(event) /\ w.firstTokenTime = NoTime
                                 THEN [ w EXCEPT !.firstTokenTime = now ] ELSE w)
  IN  IF isMessageDeltaEvent(event) /\ ~UsageIsNil(event)
      THEN [ first EXCEPT !.inputTokens = @ + event.Usage.InputTokens,
                          !.outputTokens = @ + event.Usage.OutputTokens,
                          !.totalTokens = first.inputTokens + event.Usage.InputTokens
                                          + first.outputTokens + event.Usage.OutputTokens ]
      ELSE first

\* variant: every text event sets the first-token timestamp again
CurrentOf_LastToken(w, now) ==
  LET event == w.cur
      first == AccumulateContent(IF isContentEvent(event)
                                 THEN [ w EXCEPT !.firstTokenTime = now ] ELSE w)
  IN  IF isMessageDeltaEvent(event) /\ ~UsageIsNil(event)
      THEN [ first EXCEPT !.inputTokens = event.Usage.InputTokens,
                          !.outputTokens = event.Usage.OutputTokens,
                          !.totalTokens = event.Usage.InputTokens
                                          + event.Usage.OutputTokens ]
      ELSE first

\* the body of StreamingWrapper.Current under sw.mu, for the event the stream holds
CurrentOf(w, now) ==
  LET event == w.cur
      first == AccumulateContent(IF isContentEvent(event) /\ w.firstTokenTime = NoTime
                                 THEN [ w EXCEPT !.firstTokenTime = now ] ELSE w)
      usage == IF isMessageDeltaEvent(event) /\ ~UsageIsNil(event)
               THEN [ first EXCEPT !.inputTokens = event.Usage.InputTokens,
                                   !.outputTokens = event.Usage.OutputTokens,
                                   !.totalTokens = event.Usage.InputTokens
                                                   + event.Usage.OutputTokens ]
               ELSE first
  IN  IF isMessageDeltaEvent(event) /\ extractStopReasonFromEvent(event) # ""
      THEN [ usage EXCEPT !.stopReason = extractStopReasonFromEvent(event) ]
      ELSE usage

Current ==
  /\ sw.open
  /\ ~sw.panicked
  /\ TextLen(sw.accumulatedContent) < MaxAccumulated
  /\ sw' = CurrentOf(sw, clock)
  /\ UNCHANGED << managerVars, arg, ret, clock, metering, pipelineVars, lifeVars >>

\* time passes
Tick ==
  /\ sw.open
  /\ \E d \in Elapsed :
       /\ clock + d <= MaxTicks * 1000000
       /\ clock' = clock + d
  /\ UNCHANGED << managerVars, arg, ret, sw, metering, pipelineVars, lifeVars >>

NoPayload ==
  [ inputTokenCount |-> 0, outputTokenCount |-> 0, totalTokenCount |-> 0,
    timeToFirstToken |-> 0, completionStartTime |-> NoTime, requestDuration |-> 0,
    provider |-> "", stopReason |-> "" ]

\* StreamingWrapper.Close: closes the stream, computes duration and
\* timeToFirstToken, wg.Add(1) and starts the goroutine that holds them
Close ==
  /\ sw.open
  /\ Len(metering) < MaxStreamCloses
  /\ sw' = [ sw EXCEPT !.streamClosed = TRUE ]
  /\ metering' = Append(metering,
       [ pc |-> "ready", duration |-> clock - sw.startTime,
         timeToFirstToken |-> IF sw.firstTokenTime # NoTime
                              THEN sw.firstTokenTime - sw.startTime ELSE 0,
         payload |-> NoPayload ])
  /\ wg' = wg + 1
  /\ UNCHANGED << managerVars, arg, ret, clock, provider, collector, call, task, closes, flush, lifeVars >>

\* the goroutine of Close: meteringFunc reads the counters under sw.mu,
\* builds the payload, overrides the streaming fields and hands the payload
\* to sendMeteringWithRetry; then the deferred wg.Done()
meteringFunc(i) ==
  /\ metering[i].pc = "ready"
  /\ metering' = [ metering EXCEPT ![i] =
       [ @ EXCEPT !.pc = "done",
                  !.payload =
                    StreamPayloadWithPrompts(
                      [ inputTokenCount |-> sw.inputTokens,
                        outputTokenCount |-> sw.outputTokens,
                        totalTokenCount |-> sw.totalTokens,
                        timeToFirstToken |-> Milliseconds(metering[i].timeToFirstToken),
                        completionStartTime |-> sw.firstTokenTime,
                        requestDuration |-> Milliseconds(metering[i].duration),
                        provider |-> normalizeProviderName(sw.provider),
                        stopReason |-> mapStopReasonToRevenium(sw.stopReason) ],
                      sw.promptData, sw.accumulatedContent) ] ]
  /\ wg' = wg - 1
  /\ UNCHANGED << managerVars, arg, ret, sw, clock, provider, collector, call, task, closes, flush, lifeVars >>

\* the payloads handed to sendMeteringWithRetry so far
Dispatched == { i \in DOMAIN metering : metering[i].pc = "done" }

InitStream ==
  /\ provider = ProviderBedrock
  /\ collector = {200}
  /\ call = [ c \in Calls |-> NoCall ]
  /\ task = [ t \in TaskIds |-> NoTask ]
  /\ wg = 0
  /\ closes = 0
  /\ flush = NoFlush
  /\ arg = NoArg
  /\ ret = NoRet
  /\ sw = NoWrapper
  /\ clock = 200000
  /\ metering = << >>
  /\ global = NoGlobal
  /\ env = NoEnv
  /\ proc = [ p \in Procs |-> NoProc ]
  /\ cm = NewClientManager
  /\ getter = [ p \in Procs |-> NoGetter ]

NextStream ==
  \/ OpenStream
  \/ StreamNext
  \/ Current
  \/ Tick
  \/ Close
  \/ \E i \in DOMAIN metering : meteringFunc(i)

SpecStream == InitStream /\ [][NextStream]_vars

(***************************************************************************)
(* The package lifecycle: Initialize, IsInitialized, GetClient, Reset on   *)
(* globalClient and initialized under globalMu, called by concurrent       *)
(* goroutines while the environment changes.  env is the environment as    *)
(* loadEnvFiles leaves it (the variables of the .env files included).      *)
(***************************************************************************)
\* cfg := &Config{}
ZeroConfig ==
  [ isNil |-> FALSE, AnthropicAPIKey |-> "", BaseURL |-> "", ReveniumAPIKey |-> "",
    ReveniumBaseURL |-> "", AWSAccessKeyID |-> "", AWSSecretAccessKey |-> "",
    AWSRegion |-> "", AWSProfile |-> "", BedrockDisabled |-> FALSE,
    CapturePrompts |-> FALSE ]

\* an Option assigns one field of the Config: a string or a flag
WithAnthropicAPIKey(key) == [ field |-> "AnthropicAPIKey", value |-> key, flag |-> FALSE ]
WithReveniumAPIKey(key) == [ field |-> "ReveniumAPIKey", value |-> key, flag |-> FALSE ]
WithReveniumBaseURL(url) == [ field |-> "ReveniumBaseURL", value |-> url, flag |-> FALSE ]
WithAWSRegion(region) == [ field |-> "AWSRegion", value |-> region, flag |-> FALSE ]
WithBedrockDisabled(disabled) == [ field |-> "BedrockDisabled", value |-> "", flag |-> disabled ]
WithCapturePrompts(capture) == [ field |-> "CapturePrompts", value |-> "", flag |-> capture ]

RECURSIVE ApplyOptions(_, _)
\* for _, opt := range opts { opt(cfg) }
ApplyOptions(cfg, opts) ==
  IF opts = << >> THEN cfg
  ELSE LET opt == Head(opts)
       IN  ApplyOptions([ cfg EXCEPT ![opt.field] =
                            IF opt.field \in { "BedrockDisabled", "CapturePrompts" }
                            THEN opt.flag ELSE opt.value ],
                        Tail(opts))

IsSet(value) == value = "true" \/ value = "1"

\* variant: the environment fills only the fields no option has set
loadFromEnv_KeepOptions(c, e) ==
  [ c EXCEPT !.AnthropicAPIKey = IF @ # "" THEN @ ELSE e.ANTHROPIC_API_KEY,
             !.ReveniumAPIKey = IF @ # "" THEN @ ELSE e.REVENIUM_METERING_API_KEY,
             !.ReveniumBaseURL =
                IF @ # "" THEN @
                ELSE NormalizeReveniumBaseURL(
                       getEnvOrDefault(e.REVENIUM_METERING_BASE_URL, DefaultReveniumBaseURL)),
             !.AWSAccessKeyID = e.AWS_ACCESS_KEY_ID,
             !.AWSSecretAccessKey = e.AWS_SECRET_ACCESS_KEY,
             !.AWSRegion = IF @ # "" THEN @ ELSE getEnvOrDefault(e.AWS_REGION, "us-east-1"),
             !.AWSProfile = "",
             !.CapturePrompts = @ \/ IsSet(e.REVENIUM_CAPTURE_PROMPTS),
             !.BedrockDisabled = IF IsSet(e.REVENIUM_BEDROCK_DISABLE) THEN TRUE ELSE @ ]

\* Config.loadFromEnv: every field backed by the environment is assigned
loadFromEnv(c, e) ==
  [ c EXCEPT !.AnthropicAPIKey = e.ANTHROPIC_API_KEY,
             !.ReveniumAPIKey = e.REVENIUM_METERING_API_KEY,
             !.ReveniumBaseURL =
                NormalizeReveniumBaseURL(
                  getEnvOrDefault(e.REVENIUM_METERING_BASE_URL, DefaultReveniumBaseURL)),
             !.AWSAccessKeyID = e.AWS_ACCESS_KEY_ID,
             !.AWSSecretAccessKey = e.AWS_SECRET_ACCESS_KEY,
             !.AWSRegion = getEnvOrDefault(e.AWS_REGION, "us-east-1"),
             !.AWSProfile = "",
             !.CapturePrompts = IsSet(e.REVENIUM_CAPTURE_PROMPTS),
             !.BedrockDisabled = IF IsSet(e.REVENIUM_BEDROCK_DISABLE) THEN TRUE ELSE @ ]

\* the option lists Initialize is called with
OptionLists ==
  { << >>,
    << WithReveniumAPIKey("hak_option_key") >>,
    << WithBedrockDisabled(TRUE), WithAnthropicAPIKey("sk-ant-option") >> }

\* variant: the lock is granted while another goroutine holds it
CanLock_Always(mu) == TRUE

\* globalMu.Lock() and globalMu.RLock() return when no goroutine holds the write lock
CanLock(mu) == mu = 0

Returns(pr, e, c, f) ==
  [ pr EXCEPT !.pc = "idle", !.opts = << >>, !.err = e, !.client = c, !.flag = f ]

\* os.Setenv / os.Unsetenv by the program or its tests
Setenv ==
  /\ \E name \in { "REVENIUM_METERING_API_KEY", "ANTHROPIC_API_KEY", "AWS_ACCESS_KEY_ID" } :
     \E value \in { "", "test-value" } :
       /\ env[name] # value
       /\ env' = [ env EXCEPT ![name] = value ]
  /\ UNCHANGED << managerVars, arg, ret, global, proc, pipelineVars, streamVars >>

\* Initialize: globalMu.Lock()
InitializeLock(p) ==
  /\ proc[p].pc = "idle"
  /\ CanLock(global.globalMu)
  /\ global.initialized \/ global.built < MaxBuilt
  /\ \E opts \in OptionLists :
       proc' = [ proc EXCEPT ![p] = [ NoProc EXCEPT !.pc = "Initialize", !.op = "Initialize",
                                                    !.opts = opts ] ]
  /\ global' = [ global EXCEPT !.globalMu = p ]
  /\ UNCHANGED << managerVars, arg, ret, env, pipelineVars, streamVars >>

\* variant: a call made while initialized configures and builds again
InitializeCheck_Reconfigure(p) ==
  /\ proc[p].pc = "Initialize"
  /\ proc' = [ proc EXCEPT ![p] = [ @ EXCEPT !.pc = "Initialize:config" ] ]
  /\ UNCHANGED << managerVars, arg, ret, global, env, pipelineVars, streamVars >>

\* if initialized { return nil }
InitializeCheck(p) ==
  /\ proc[p].pc = "Initialize"
  /\ IF global.initialized
     THEN /\ proc' = [ proc EXCEPT ![p] = Returns(@, "", 0, FALSE) ]
          /\ global' = [ global EXCEPT !.globalMu = 0 ]
     ELSE /\ proc' = [ proc EXCEPT ![p] = [ @ EXCEPT !.pc = "Initialize:config" ] ]
          /\ UNCHANGED global
  /\ UNCHANGED << managerVars, arg, ret, env, pipelineVars, streamVars >>

\* variant: the flag is set before the required key is validated
InitializeConfig_FlagFirst(p) ==
  /\ proc[p].pc = "Initialize:config"
  /\ LET cfg == loadFromEnv(ApplyOptions(ZeroConfig, proc[p].opts), env)
     IN  IF cfg.ReveniumAPIKey = ""
         THEN /\ proc' = [ proc EXCEPT ![p] = Returns(@, "ConfigError", 0, FALSE) ]
              /\ global' = [ global EXCEPT !.initialized = TRUE, !.globalMu = 0 ]
         ELSE /\ proc' = [ proc EXCEPT ![p] = Returns(@, "", 0, FALSE) ]
              /\ global' = [ global EXCEPT
                               !.globalClient = [ id |-> global.built + 1, config |-> cfg,
                                                  provider |-> DetectProvider(cfg) ],
                               !.initialized = TRUE,
                               !.built = @ + 1,
                               !.globalMu = 0 ]
  /\ UNCHANGED << managerVars, arg, ret, env, pipelineVars, streamVars >>

\* the rest of Initialize: options, loadFromEnv, the required key, the
\* client, DetectProvider, initialized = true, and the deferred Unlock
InitializeConfig(p) ==
  /\ proc[p].pc = "Initialize:config"
  /\ LET cfg == loadFromEnv(ApplyOptions(ZeroConfig, proc[p].opts), env)
     IN  IF cfg.ReveniumAPIKey = ""
         THEN /\ proc' = [ proc EXCEPT ![p] = Returns(@, "ConfigError", 0, FALSE) ]
              /\ global' = [ global EXCEPT !.globalMu = 0 ]
         ELSE /\ proc' = [ proc EXCEPT ![p] = Returns(@, "", 0, FALSE) ]
              /\ global' = [ global EXCEPT
                               !.globalClient = [ id |-> global.built + 1, config |-> cfg,
                                                  provider |-> DetectProvider(cfg) ],
                               !.initialized = TRUE,
                               !.built = @ + 1,
                               !.globalMu = 0 ]
  /\ UNCHANGED << managerVars, arg, ret, env, pipelineVars, streamVars >>

\* IsInitialized, under globalMu.RLock()
IsInitialized(p) ==
  /\ proc[p].pc = "idle"
  /\ CanLock(global.globalMu)
  /\ proc' = [ proc EXCEPT ![p] =
                 [ Returns(@, "", 0, global.initialized) EXCEPT !.op = "IsInitialized" ] ]
  /\ UNCHANGED << managerVars, arg, ret, global, env, pipelineVars, streamVars >>

\* GetClient, under globalMu.RLock()
GetClient(p) ==
  /\ proc[p].pc = "idle"
  /\ CanLock(global.globalMu)
  /\ proc' = [ proc EXCEPT ![p] =
                 [ (IF ~global.initialized
                    THEN Returns(@, "ConfigError", 0, FALSE)
                    ELSE Returns(@, "", global.globalClient.id, FALSE))
                   EXCEPT !.op = "GetClient" ] ]
  /\ UNCHANGED << managerVars, arg, ret, global, env, pipelineVars, streamVars >>

\* Reset: globalMu.Lock()
ResetLock(p) ==
  /\ proc[p].pc = "idle"
  /\ CanLock(global.globalMu)
  /\ proc' = [ proc EXCEPT ![p] = [ NoProc EXCEPT !.pc = "Reset", !.op = "Reset" ] ]
  /\ global' = [ global EXCEPT !.globalMu = p ]
  /\ UNCHANGED << managerVars, arg, ret, env, pipelineVars, streamVars >>

\* variant: Reset drops the client and leaves the flag
Reset_KeepFlag(p) ==
  /\ proc[p].pc = "Reset"
  /\ global.globalClient # NilClient => wg = 0
  /\ global' = [ global EXCEPT !.globalClient = NilClient, !.globalMu = 0 ]
  /\ proc' = [ proc EXCEPT ![p] = Returns(@, "", 0, FALSE) ]
  /\ UNCHANGED << managerVars, arg, ret, env, pipelineVars, streamVars >>

\* the body of Reset: globalClient.Close() waits for the WaitGroup of the
\* client, then globalClient = nil, initialized = false, and the deferred Unlock
Reset(p) ==
  /\ proc[p].pc = "Reset"
  /\ global.globalClient # NilClient => wg = 0
  /\ global' = [ global EXCEPT !.globalClient = NilClient, !.initialized = FALSE,
                               !.globalMu = 0 ]
  /\ proc' = [ proc EXCEPT ![p] = Returns(@, "", 0, FALSE) ]
  /\ UNCHANGED << managerVars, arg, ret, env, pipelineVars, streamVars >>

InitLife ==
  /\ provider = ProviderAnthropic
  /\ collector = {200}
  /\ call = [ c \in Calls |-> NoCall ]
  /\ task = [ t \in TaskIds |-> NoTask ]
  /\ wg = 0
  /\ closes = 0
  /\ flush = NoFlush
  /\ arg = NoArg
  /\ ret = NoRet
  /\ sw = NoWrapper
  /\ clock = 0
  /\ metering = << >>
  /\ global = NoGlobal
  /\ env = [ NoEnv EXCEPT !.AWS_SECRET_ACCESS_KEY = "test-secret-key" ]
  /\ proc = [ p \in Procs |-> NoProc ]
  /\ cm = NewClientManager
  /\ getter = [ p \in Procs |-> NoGetter ]

NextLife ==
  \/ Setenv
  \/ \E p \in Procs : InitializeLock(p)
  \/ \E p \in Procs : InitializeCheck(p)
  \/ \E p \in Procs : InitializeConfig(p)
  \/ \E p \in Procs : IsInitialized(p)
  \/ \E p \in Procs : GetClient(p)
  \/ \E p \in Procs : ResetLock(p)
  \/ \E p \in Procs : Reset(p)

SpecLife == InitLife /\ [][NextLife]_vars

\* the option lists and environments the configuration of Initialize is
\* computed for: each option alone, and pairs of them
ConfigOptions ==
  { WithAnthropicAPIKey("sk-ant-option"), WithReveniumAPIKey("hak_option_key"),
    WithReveniumBaseURL("https://option.example.com"), WithAWSRegion("ap-south-1"),
    WithBedrockDisabled(TRUE), WithBedrockDisabled(FALSE), WithCapturePrompts(TRUE) }

ConfigOptionLists ==
  { << >> } \cup { << o >> : o \in ConfigOptions }
            \cup { << WithReveniumAPIKey("hak_option_key"), o >> :
                   o \in ConfigOptions }

ConfigEnvs ==
  [ REVENIUM_METERING_API_KEY : { "", "hak_env_key" },
    ANTHROPIC_API_KEY : { "", "sk-ant-env" },
    REVENIUM_METERING_BASE_URL : { "", "https://env.example.com/meter/v2" },
    AWS_ACCESS_KEY_ID : { "" },
    AWS_SECRET_ACCESS_KEY : { "" },
    AWS_REGION : { "", "eu-west-1" },
    REVENIUM_CAPTURE_PROMPTS : { "", "true", "false" },
    REVENIUM_BEDROCK_DISABLE : { "", "1" } ]

\* Initialize on an uninitialized middleware, up to the validation of the
\* required key: the configuration it computes and the error it returns
CallInitialize ==
  /\ Pending("Initialize")
  /\ LET cfg == loadFromEnv(ApplyOptions(ZeroConfig, arg.opts), arg.env)
     IN  ret' = [ fn |-> "Initialize", cfg |-> cfg,
                  err |-> IF cfg.ReveniumAPIKey = "" THEN "ConfigError" ELSE "" ]
  /\ UNCHANGED << managerVars, arg, pipelineVars, streamVars, lifeVars >>

(***************************************************************************)
(* Calls with prompt capture: a client built by Initialize, through which  *)
(* streams are opened, read and closed and messages are created.           *)
(***************************************************************************)
\* a text given as it is
TextOf(str) == [ EmptyText EXCEPT !.suffix = str ]

\* CreateMessage through the client, direct or gateway, with its dispatch
\* goroutine: the payload the goroutine hands to sendMeteringWithRetry is
\* computed from what the call passes to it
CreateMessageCapture ==
  /\ Len(metering) < MaxStreamCloses
  /\ \E params \in { << 1 >> } :
     \E prov \in IF provider = "AWS" THEN {"AWS", "Anthropic"} ELSE {"Anthropic"} :
     \E respText \in { TextOf("Hello") } :
       LET promptData ==
             WithResponseContent(ExtractIfCapture(CapturePrompts, PromptsOf(params)),
                                 CapturePrompts, respText)
       IN  metering' = Append(metering,
             [ pc |-> "done", duration |-> 0, timeToFirstToken |-> 0,
               payload |->
                 PayloadWithPrompts(
                   [ NoPayload EXCEPT !.inputTokenCount = 3, !.outputTokenCount = 4,
                                      !.totalTokenCount = 7,
                                      !.provider = normalizeProviderName(prov),
                                      !.stopReason = mapStopReasonToRevenium("end_turn") ],
                   promptData) ])
  /\ UNCHANGED << managerVars, arg, ret, sw, clock, pipelineVars, lifeVars >>

\* the environments of the client the captured calls are made through
CaptureEnvs ==
  { [ NoEnv EXCEPT !.REVENIUM_METERING_API_KEY = "hak_test_key",
                   !.AWS_ACCESS_KEY_ID = "test-access-key",
                   !.AWS_SECRET_ACCESS_KEY = "test-secret-key",
                   !.REVENIUM_CAPTURE_PROMPTS = c ] : c \in { "", "true" } }

\* Initialize has built the global client from the environment
InitCapture ==
  /\ env \in CaptureEnvs
  /\ global = [ NoGlobal EXCEPT
                  !.globalClient = [ id |-> 1, config |-> loadFromEnv(ZeroConfig, env),
                                     provider |-> DetectProvider(loadFromEnv(ZeroConfig, env)) ],
                  !.initialized = TRUE, !.built = 1 ]
  /\ provider = global.globalClient.provider
  /\ collector = {200}
  /\ call = [ c \in Calls |-> NoCall ]
  /\ task = [ t \in TaskIds |-> NoTask ]
  /\ wg = 0
  /\ closes = 0
  /\ flush = NoFlush
  /\ arg = NoArg
  /\ ret = NoRet
  /\ sw = NoWrapper
  /\ clock = 200000
  /\ metering = << >>
  /\ proc = [ p \in Procs |-> NoProc ]
  /\ cm = NewClientManager
  /\ getter = [ p \in Procs |-> NoGetter ]

NextCapture ==
  \/ OpenStream
  \/ StreamNext
  \/ Current
  \/ Close
  \/ \E i \in DOMAIN metering : meteringFunc(i)
  \/ CreateMessageCapture

SpecCapture == InitCapture /\ [][NextCapture]_vars

(***************************************************************************)
(* Teardown: Reset on a client whose streams are being closed, so that     *)
(* metering goroutines are counted in the WaitGroup that Reset waits for.  *)
(***************************************************************************)
NextTeardown ==
  \/ OpenStream
  \/ Close
  \/ \E i \in DOMAIN metering : meteringFunc(i)
  \/ \E p \in Procs : ResetLock(p)
  \/ \E p \in Procs : Reset(p)
  \/ \E p \in Procs : IsInitialized(p)

SpecTeardown == InitCapture /\ [][NextTeardown]_vars

(***************************************************************************)
(* Panics in dispatch goroutines.  A panic raised anywhere below           *)
(* sendMeteringDataWithPrompts (or meteringFunc of a stream) unwinds to    *)
(* the deferred recover of that function, which logs it; the function      *)
(* returns, and the deferred wg.Done() of the goroutine runs.              *)
(***************************************************************************)
\* what recover() returned to the deferred function: the panic's value
Recovered == [ type |-> "panic", status |-> 0 ]

\* variant: the panic ends the goroutine without the deferred wg.Done()
Panic_NoDone(t) ==
  /\ task[t].pc \in { "start", "post", "sleep" }
  /\ task' = [ task EXCEPT ![t] = [ @ EXCEPT !.pc = "done", !.result = Recovered,
                                              !.logged = TRUE ] ]
  /\ UNCHANGED << provider, collector, call, wg, closes, flush >>
  /\ UNCHANGED outsidePipeline

\* a panic in the goroutine of task t: recover(), Error(...), wg.Done()
Panic(t) ==
  /\ task[t].pc \in { "start", "post", "sleep" }
  /\ task' = [ task EXCEPT ![t] = [ @ EXCEPT !.pc = "done", !.result = Recovered,
                                              !.logged = TRUE ] ]
  /\ wg' = wg - 1
  /\ flush' = Released(flush, wg')
  /\ UNCHANGED << provider, collector, call, closes >>
  /\ UNCHANGED outsidePipeline

\* the calls made before Flush or Close: at most two dispatch goroutines,
\* of CreateMessage calls (ids in Calls) or of stream Closes (ids in
\* CloseIds), through either provider, have been started and counted
InitPanic ==
  /\ provider = "AWS"
  /\ collector \in { {200}, {503} }
  /\ call = [ c \in Calls |-> NoCall ]
  /\ \E started \in { s \in SUBSET TaskIds : Cardinality(s) \in 1..2 } :
     \E prov \in { "Anthropic", "AWS" } :
       /\ task = [ t \in TaskIds |-> IF t \in started THEN Spawn(t, prov) ELSE NoTask ]
       /\ wg = Cardinality(started)
       /\ closes = Cardinality(started \cap CloseIds)
  /\ flush = NoFlush
  /\ arg = NoArg
  /\ ret = NoRet
  /\ sw = NoWrapper
  /\ clock = 0
  /\ metering = << >>
  /\ global = NoGlobal
  /\ env = NoEnv
  /\ proc = [ p \in Procs |-> NoProc ]
  /\ cm = NewClientManager
  /\ getter = [ p \in Procs |-> NoGetter ]

\* the steps of the goroutine of task t that do not depend on a failure
TaskStep(t) == sendMeteringDataWithPrompts(t) \/ Post(t) \/ Sleep(t)

NextPanic ==
  \/ \E t \in TaskIds : sendMeteringDataWithPrompts(t)
  \/ \E t \in TaskIds : Post(t)
  \/ \E t \in TaskIds : Sleep(t)
  \/ \E t \in TaskIds : Panic(t)
  \/ FlushCall
  \/ FlushReturn

\* every goroutine that can take a step takes one (a POST attempt and a
\* backoff sleep terminate), and a released Wait returns
SpecPanic ==
  /\ InitPanic
  /\ [][NextPanic]_vars
  /\ \A t \in TaskIds : WF_vars(TaskStep(t))
  /\ WF_vars(FlushReturn)

(***************************************************************************)
(* ClientManager.  GetReveniumClient looks the key up under the read lock, *)
(* releases it, builds a client with no lock held and stores it under the  *)
(* write lock; each locked section is one step.  CloseAll closes the       *)
(* cached clients and empties the cache under the write lock.              *)
(***************************************************************************)
MaxClients == 3
ManagerKeys == { "tenant-a", "tenant-b" }

\* cm.mu.RLock(); if client, exists := cm.reveniumClients[key]; exists
\* { cm.mu.RUnlock(); return client, nil }; cm.mu.RUnlock()
GetLookup(p) ==
  /\ getter[p].pc \in { "idle", "returned" }
  /\ cm.built < MaxClients
  /\ \E key \in ManagerKeys, apiKey \in { "", "hak_manager" } :
       IF key \in DOMAIN cm.reveniumClients
       THEN /\ getter' = [ getter EXCEPT ![p] =
                 [ NoGetter EXCEPT !.pc = "returned", !.key = key, !.ReveniumAPIKey = apiKey,
                                   !.client = cm.reveniumClients[key] ] ]
            /\ cm' = [ cm EXCEPT !.handed = @ \cup { cm.reveniumClients[key] } ]
       ELSE /\ getter' = [ getter EXCEPT ![p] =
                 [ NoGetter EXCEPT !.pc = "create", !.key = key, !.ReveniumAPIKey = apiKey ] ]
            /\ UNCHANGED cm
  /\ UNCHANGED << arg, ret, pipelineVars, streamVars, lifeVars >>

\* client, err := NewReveniumAnthropic(cfg); if err != nil { return nil, err }
GetCreate(p) ==
  /\ getter[p].pc = "create"
  /\ IF getter[p].ReveniumAPIKey = ""
     THEN /\ getter' = [ getter EXCEPT ![p] = [ @ EXCEPT !.pc = "returned", !.err = "ConfigError" ] ]
          /\ UNCHANGED cm
     ELSE /\ getter' = [ getter EXCEPT ![p] = [ @ EXCEPT !.pc = "store", !.client = cm.built + 1 ] ]
          /\ cm' = [ cm EXCEPT !.built = @ + 1 ]
  /\ UNCHANGED << arg, ret, pipelineVars, streamVars, lifeVars >>

\* cm.mu.Lock(); cm.reveniumClients[key] = client; cm.mu.Unlock(); return client, nil
GetStore(p) ==
  /\ getter[p].pc = "store"
  /\ cm' = [ cm EXCEPT !.reveniumClients = (getter[p].key :> getter[p].client) @@ @,
                       !.handed = @ \cup { getter[p].client } ]
  /\ getter' = [ getter EXCEPT ![p] = [ @ EXCEPT !.pc = "returned" ] ]
  /\ UNCHANGED << arg, ret, pipelineVars, streamVars, lifeVars >>

\* the clients the cache holds
Cached == { cm.reveniumClients[k] : k \in DOMAIN cm.reveniumClients }

\* CloseAll: client.Close() for every cached client (Close returns nil),
\* then both caches are replaced by empty maps
CloseAll ==
  /\ cm.closeAlls < 1
  /\ cm' = [ cm EXCEPT !.closed = @ \cup Cached, !.reveniumClients = << >>,
                       !.settled = cm.handed, !.closeAlls = @ + 1 ]
  /\ UNCHANGED << getter, arg, ret, pipelineVars, streamVars, lifeVars >>

InitManager ==
  /\ provider = "ANTHROPIC"
  /\ collector = {200}
  /\ call = [ c \in Calls |-> NoCall ]
  /\ task = [ t \in TaskIds |-> NoTask ]
  /\ wg = 0
  /\ closes = 0
  /\ flush = NoFlush
  /\ arg = NoArg
  /\ ret = NoRet
  /\ sw = NoWrapper
  /\ clock = 0
  /\ metering = << >>
  /\ global = NoGlobal
  /\ env = NoEnv
  /\ proc = [ p \in Procs |-> NoProc ]
  /\ cm = NewClientManager
  /\ getter = [ p \in Procs |-> NoGetter ]

NextManager ==
  \/ \E p \in Procs : GetLookup(p)
  \/ \E p \in Procs : GetCreate(p)
  \/ \E p \in Procs : GetStore(p)
  \/ CloseAll

SpecManager == InitManager /\ [][NextManager]_vars

(***************************************************************************)
(* The library specification: one call of one function, with every         *)
(* argument of the sets above.                                             *)
(***************************************************************************)
InitLib ==
  /\ provider = ProviderAnthropic
  /\ collector = {200}
  /\ call = [ c \in Calls |-> NoCall ]
  /\ task = [ t \in TaskIds |-> NoTask ]
  /\ wg = 0
  /\ closes = 0
  /\ flush = NoFlush
  /\ \/ arg \in [ fn : {"DetectProvider"}, cfg : Configs ]
     \/ arg \in [ fn : {"mapStopReasonToRevenium"}, stopReason : StopReasons ]
     \/ arg \in [ fn : {"GetBedrockModelID"},
                   modelName : DirectModelNames \cup GatewayModelIDs, config : ARNConfigs ]
     \/ arg \in [ fn : {"ConvertBedrockARNToAnthropicModel"}, bedrockModel : BedrockModels ]
     \/ arg \in [ fn : {"NormalizeReveniumBaseURL"}, origin : Origins, form : URLForms ]
     \/ arg = [ fn |-> "NormalizeReveniumBaseURL", origin |-> "", form |-> "" ]
     \* params of a request: a system prompt alone, one message alone, and
     \* conversations of up to MaxMessages messages
     \/ \E t \in TextsAround(MaxPromptLength) :
          arg = [ fn |-> "ExtractPromptsFromParams",
                  params |-> [ System |-> t, Messages |-> << >> ] ]
     \/ \E t \in TextsAround(halfLimit) :
          arg = [ fn |-> "ExtractPromptsFromParams",
                  params |-> [ System |-> EmptyText,
                               Messages |-> << [ role |-> "user", content |-> t ] >> ] ]
     \/ arg \in [ fn : {"ExtractPromptsFromParams"},
                   params : [ System : { EmptyText, Ascii(MaxPromptLength + 1) },
                              Messages : MessageLists(MaxMessages) ] ]
     \/ arg \in [ fn : {"ExtractResponseContent", "ExtractStreamingResponseContent"},
                   text : TextsAround(MaxPromptLength), promptsTruncated : BOOLEAN ]
     \/ arg \in [ fn : {"ExtractResponseContent", "ExtractStreamingResponseContent"},
                   text : { EmptyText }, promptsTruncated : BOOLEAN ]
     \/ arg \in [ fn : {"DetectVisionContent"}, params : VisionParams(MaxMessages) ]
     \/ arg \in [ fn : {"buildMeteringPayload"}, resp : Responses, metadata : CallerMetadata,
                   isStreamed : BOOLEAN, provider : {"Anthropic", "AWS"},
                   params : PayloadParams ]
     \/ arg \in [ fn : {"Initialize"}, opts : ConfigOptionLists, env : ConfigEnvs ]
     \/ arg \in [ fn : {"capture"}, CapturePrompts : BOOLEAN, isStreamed : BOOLEAN,
                   provider : {"Anthropic", "AWS"}, params : CaptureParams,
                   text : CaptureTexts, metadata : CaptureMetadata ]
  /\ ret = NoRet
  /\ sw = NoWrapper
  /\ clock = 0
  /\ metering = << >>
  /\ global = NoGlobal
  /\ env = NoEnv
  /\ proc = [ p \in Procs |-> NoProc ]
  /\ cm = NewClientManager
  /\ getter = [ p \in Procs |-> NoGetter ]

NextLib ==
  \/ CallDetectProvider
  \/ CallMapStopReason
  \/ CallGetBedrockModelID
  \/ CallGetBedrockModelIDAgain
  \/ CallConvertBack
  \/ CallConvert
  \/ CallNormalizeReveniumBaseURL
  \/ CallExtractPromptsFromParams
  \/ CallExtractResponseContent
  \/ CallExtractStreamingResponseContent
  \/ CallDetectVisionContent
  \/ CallBuildMeteringPayload
  \/ CallInitialize
  \/ CallCapture

SpecLib == InitLib /\ [][NextLib]_vars

(***************************************************************************)
(* C11: DetectProvider follows the decision table for every configuration: *)
(* cloud path disabled gives the direct provider; otherwise credentials    *)
(* (access key and secret, or a named profile) give the gateway provider;  *)
(* otherwise a base URL on the cloud vendor's domain gives the gateway;    *)
(* otherwise the direct provider.                                          *)
(***************************************************************************)
TableProvider(cfg) ==
  IF cfg.BedrockDisabled THEN ProviderAnthropic
  ELSE IF \/ (cfg.AWSAccessKeyID # "" /\ cfg.AWSSecretAccessKey # "")
          \/ cfg.AWSProfile # ""
       THEN ProviderBedrock
  ELSE IF StrContains(cfg.BaseURL, "amazonaws.com") THEN ProviderBedrock
  ELSE ProviderAnthropic

C11_Claim ==
  (Returned("DetectProvider") /\ ~arg.cfg.isNil)
    => ret.provider = TableProvider(arg.cfg)

(***************************************************************************)
(* C12: stop-reason canonicalization matches the table for every table     *)
(* entry and returns END for every string not in the table, the empty      *)
(* string included.  C12_Original has the table as the claim words it      *)
(* (context_window_exceeded); C12_Amended has the key the code maps        *)
(* (model_context_window_exceeded).                                        *)
(***************************************************************************)
ClaimedTable ==
  { <<"end_turn", "END">>, <<"max_tokens", "TOKEN_LIMIT">>,
    <<"context_window_exceeded", "TOKEN_LIMIT">>,
    <<"stop_sequence", "END_SEQUENCE">>, <<"tool_use", "END">>,
    <<"pause_turn", "END">>, <<"refusal", "ERROR">>, <<"timeout", "TIMEOUT">>,
    <<"error", "ERROR">>, <<"cancelled", "CANCELLED">>, <<"canceled", "CANCELLED">> }

AmendedTable ==
  (ClaimedTable \ { <<"context_window_exceeded", "TOKEN_LIMIT">> })
    \cup { <<"model_context_window_exceeded", "TOKEN_LIMIT">> }

\* the canonical value a table gives: the entry of s, END when s has none
Canonical(table, s) ==
  IF \E e \in table : e[1] = s
  THEN (CHOOSE e \in table : e[1] = s)[2]
  ELSE "END"

C12_Original ==
  Returned("mapStopReasonToRevenium") =>
    /\ ret.mapped = Canonical(ClaimedTable, arg.stopReason)
    /\ ret.payload = Canonical(ClaimedTable, arg.stopReason)

C12_Amended ==
  Returned("mapStopReasonToRevenium") =>
    /\ ret.mapped = Canonical(AmendedTable, arg.stopReason)
    /\ ret.payload = Canonical(AmendedTable, arg.stopReason)

C12_Witness ==
  /\ Returned("mapStopReasonToRevenium")
  /\ arg.stopReason = "context_window_exceeded"
  /\ ret.payload = "END"

(***************************************************************************)
(* C13: model-identifier round trip.  For every plain direct-API model     *)
(* name m, GetBedrockModelID (no base ARN, or a valid base ARN) followed   *)
(* by ConvertBedrockARNToAnthropicModel yields m with no error.            *)
(* C13_Original takes every plain name; C13_Amended the plain names that   *)
(* contain no "-v", no ":" and no "/".                                     *)
(***************************************************************************)
\* m is in plain form: no ARN, no anthropic. prefix, no inference profile
IsPlainName(m) ==
  /\ ~StrContains(m, "arn:aws:bedrock")
  /\ ~HasPrefix(m, "anthropic.")
  /\ ~StrContains(m, "inference-profile")

NoBaseOrValidBase(config) ==
  config.isNil \/ config.AWSModelARNBase \in {"", ValidBaseARN}

RoundTripDone ==
  /\ Returned("GetBedrockModelID")
  /\ ret.step = "back"
  /\ IsPlainName(arg.modelName)
  /\ NoBaseOrValidBase(arg.config)

C13_Original ==
  RoundTripDone => ret.back = [ model |-> arg.modelName, err |-> FALSE ]

C13_Amended ==
  ( /\ RoundTripDone
    /\ ~StrContains(arg.modelName, "-v")
    /\ ~StrContains(arg.modelName, ":")
    /\ ~StrContains(arg.modelName, "/") )
    => ret.back = [ model |-> arg.modelName, err |-> FALSE ]

C13_Witness ==
  /\ RoundTripDone
  /\ arg.modelName = "claude-sonnet-4-20250514"
  /\ arg.config = [ isNil |-> FALSE, AWSModelARNBase |-> ValidBaseARN ]
  /\ ret.id = "arn:aws:bedrock:us-east-1:123456789012:inference-profile/us.anthropic.claude-sonnet-4-20250514-v1:0"
  /\ ret.back.model = "claude-sonnet-4-20250514"

(***************************************************************************)
(* C14: ConvertBedrockARNToAnthropicModel.  A plain input is returned      *)
(* unchanged; a fully-qualified ARN yields the segment after the last "/"  *)
(* minus the us./eu./ap. + anthropic. prefix and minus the version suffix; *)
(* anthropic.<name>-v<N>:<N> yields <name>; an input that cannot be parsed *)
(* (gateway markers, but neither an ARN with a "/" nor an anthropic. id)   *)
(* returns an error and the empty result; a result without error is never  *)
(* a default: it is a part of the input.                                   *)
(***************************************************************************)
IsVersionSuffix(x) == x = "" \/ HasPrefix(x, "-v") \/ HasPrefix(x, ":")

\* seg is prefix, then name, then nothing or a version suffix
Decomposes(seg, prefix, name) ==
  /\ HasPrefix(seg, prefix \o name)
  /\ IsVersionSuffix(SubSeq(seg, Len(prefix) + Len(name) + 1, Len(seg)))
  /\ ~StrContains(name, "-v")
  /\ ~StrContains(name, ":")

RegionPrefixes == { "us.anthropic.", "eu.anthropic.", "ap.anthropic." }

IsFullARN(s) == HasPrefix(s, "arn:aws:bedrock:") /\ StrContains(s, "/")

C14_ConvertContract ==
  Returned("ConvertBedrockARNToAnthropicModel") =>
    LET input == arg.bedrockModel
        seg == SplitLast(input, "/")
    IN  /\ IsPlainName(input) => (ret.model = input /\ ~ret.err)
        /\ IsFullARN(input) =>
             /\ ~ret.err
             /\ IF \E p \in RegionPrefixes : HasPrefix(seg, p)
                THEN \E p \in RegionPrefixes : Decomposes(seg, p, ret.model)
                ELSE Decomposes(seg, "", ret.model)
        /\ (HasPrefix(input, "anthropic.") /\ ~IsFullARN(input)) =>
             (~ret.err /\ Decomposes(input, "anthropic.", ret.model))
        /\ (~IsPlainName(input) /\ ~IsFullARN(input) /\ ~HasPrefix(input, "anthropic.")) =>
             (ret.err /\ ret.model = "")
        /\ ret.err => ret.model = ""
        /\ ~ret.err => StrContains(input, ret.model)

C14_Witness ==
  /\ Returned("ConvertBedrockARNToAnthropicModel")
  /\ arg.bedrockModel = "arn:aws:bedrock:invalid-format"
  /\ ret.err
  /\ ret.model = ""

(***************************************************************************)
(* C15: GetBedrockModelID.  A full gateway ARN is returned unchanged; with *)
(* a base ARN configured the result is                                     *)
(* {base}:inference-profile/us.anthropic.{model}-v1:0; otherwise a name    *)
(* that starts with anthropic. is returned unchanged and any other name    *)
(* gets the anthropic. prefix; applying the conversion twice gives the     *)
(* same as applying it once.  C15_Original builds the ARN for every        *)
(* configured base; C15_Amended only for a base that passes                *)
(* ValidateBedrockBaseARN and a model name that is not empty, the standard *)
(* format being used otherwise, and has the second application change      *)
(* nothing for every model name that is not empty.                         *)
(***************************************************************************)
BaseConfigured(config) == ~config.isNil /\ config.AWSModelARNBase # ""

StandardFormat(m) == IF HasPrefix(m, "anthropic.") THEN m ELSE "anthropic." \o m

FullARNOf(base, m) == base \o ":inference-profile/us.anthropic." \o m \o "-v1:0"

Idempotent == ret.step = "again" => ret.again = ret.id

C15_Original ==
  Returned("GetBedrockModelID") =>
    /\ ret.id = IF HasPrefix(arg.modelName, "arn:aws:bedrock:") THEN arg.modelName
                ELSE IF BaseConfigured(arg.config)
                THEN FullARNOf(arg.config.AWSModelARNBase, arg.modelName)
                ELSE StandardFormat(arg.modelName)
    /\ Idempotent

C15_Amended ==
  Returned("GetBedrockModelID") =>
    /\ ret.id = IF HasPrefix(arg.modelName, "arn:aws:bedrock:") THEN arg.modelName
                ELSE IF /\ BaseConfigured(arg.config)
                        /\ ValidateBedrockBaseARN(arg.config.AWSModelARNBase)
                        /\ arg.modelName # ""
                THEN FullARNOf(arg.config.AWSModelARNBase, arg.modelName)
                ELSE StandardFormat(arg.modelName)
    /\ arg.modelName # "" => Idempotent

C15_Witness ==
  /\ Returned("GetBedrockModelID")
  /\ ret.step = "again"
  /\ arg.modelName = "claude-3-opus-20240229"
  /\ arg.config = [ isNil |-> FALSE, AWSModelARNBase |-> ValidBaseARN ]
  /\ ret.id = "arn:aws:bedrock:us-east-1:123456789012:inference-profile/us.anthropic.claude-3-opus-20240229-v1:0"
  /\ ret.again = ret.id

(***************************************************************************)
(* C16: base-URL normalization.  For one origin every supported form       *)
(* (bare, trailing slash, /meter, /meter/, /meter/v2, /meter/v2/)          *)
(* normalizes to the bare origin with no trailing slash, the empty input   *)
(* to the default production origin, and the metering POST URL is that     *)
(* origin followed by /meter/v2/ai/completions.                            *)
(***************************************************************************)
SupportedForms == { "", "/", "/meter", "/meter/", "/meter/v2", "/meter/v2/" }

C16_NormalizedOrigin ==
  (Returned("NormalizeReveniumBaseURL") /\ arg.form \in SupportedForms) =>
    LET origin == IF arg.origin = "" THEN "https://api.revenium.ai" ELSE arg.origin
    IN  /\ ret.normalized = origin
        /\ ret.ReveniumBaseURL = origin
        /\ ~HasSuffix(ret.normalized, "/")
        /\ ret.url = origin \o "/meter/v2/ai/completions"

C16_Witness ==
  /\ Returned("NormalizeReveniumBaseURL")
  /\ arg.origin = "http://localhost:8080"
  /\ arg.form = "/meter/v2/"
  /\ ret.url = "http://localhost:8080/meter/v2/ai/completions"

(***************************************************************************)
(* C17: truncation of captured text (system prompt and response text at    *)
(* cap 50,000, each message's content at cap 25,000).  For an input longer *)
(* than the cap the output length is at most the cap, the output is valid  *)
(* UTF-8 with no multi-byte code point split, it ends with the truncation  *)
(* marker and the truncated flag is true; for an input not longer than the *)
(* cap the output equals the input and the flag is not set by it.          *)
(* Lengths are len(), bytes.                                               *)
(***************************************************************************)
\* out, without the marker, is the input up to a boundary of its code points
CutAtBoundary(input, out) ==
  LET m == TextLen(out) - Len(out.suffix)
  IN  /\ m <= TextLen(input)
      /\ [ out EXCEPT !.suffix = "" ] = Prefix(input, m)
      /\ ValidString(Prefix(input, m))

\* what the claim says of one field: input, output, cap, the flag after the
\* call and the flag as it was without this field
TruncationContract(input, out, cap, flag, flagBefore) ==
  IF TextLen(input) > cap
  THEN /\ TextLen(out) <= cap
       /\ ValidString(out)
       /\ ValidString(input) => CutAtBoundary(input, out)
       /\ HasSuffix(out.suffix, "...[TRUNCATED]")
       /\ flag
  ELSE /\ out = input
       /\ flag = flagBefore

SystemAlone == arg.fn = "ExtractPromptsFromParams" /\ arg.params.Messages = << >>
MessageAlone ==
  /\ arg.fn = "ExtractPromptsFromParams"
  /\ arg.params.System = EmptyText
  /\ Len(arg.params.Messages) = 1

ExtractReturned ==
  \/ Returned("ExtractPromptsFromParams")
  \/ Returned("ExtractResponseContent")
  \/ Returned("ExtractStreamingResponseContent")

C18_Claim ==
  ExtractReturned =>
    /\ ret.lenSystemPrompt <= 50000
    /\ ret.lenInputMessages <= 50000
    /\ ret.lenOutputResponse <= 50000

(***************************************************************************)
(* C19: vision detection.  Every image block increments imageCount; an     *)
(* inline base64 image adds (len(data) - padding) * 3 / 4 bytes, padding   *)
(* being the number of trailing "=" (0, 1 or 2); an image referenced by    *)
(* URL adds to imageCount and adds no bytes; mediaTypes lists each         *)
(* non-empty media type once, in first-seen order.                         *)
(***************************************************************************)
\* number of "=" at the end of data, at most 2
TrailingEquals(data) ==
  IF HasSuffix(data, "==") THEN 2 ELSE IF HasSuffix(data, "=") THEN 1 ELSE 0

RECURSIVE SumBytes(_)
SumBytes(blocks) ==
  IF blocks = << >> THEN 0
  ELSE (IF Head(blocks).OfImage /\ Head(blocks).source = "base64"
        THEN ((Len(Head(blocks).Data) - TrailingEquals(Head(blocks).Data)) * 3) \div 4
        ELSE 0) + SumBytes(Tail(blocks))

\* position of the first block with media type t
FirstSeen(blocks, t) ==
  CHOOSE i \in 1..Len(blocks) :
    /\ blocks[i].MediaType = t
    /\ \A j \in 1..(i - 1) : blocks[j].MediaType # t

C19_VisionDetection ==
  Returned("DetectVisionContent") =>
    LET blocks == AllBlocks(arg.params.Messages)
        images == { i \in 1..Len(blocks) : blocks[i].OfImage }
        types == { blocks[i].MediaType : i \in images } \ { "" }
        mt == ret.result.MediaTypes
    IN  /\ ret.result.ImageCount = Cardinality(images)
        /\ ret.result.HasVisionContent = (images # {})
        /\ ret.result.TotalImageSizeBytes = SumBytes(blocks)
        /\ { mt[i] : i \in 1..Len(mt) } = types
        /\ \A i, j \in 1..Len(mt) :
             i < j => FirstSeen(blocks, mt[i]) < FirstSeen(blocks, mt[j])

\* a URL image, then base64 images with padding 1, 2 and 0
C19_Witness ==
  /\ Returned("DetectVisionContent")
  /\ arg.params.Messages =
       << << URLImage, Base64Image("image/gif", "="), Base64Image("image/png", "QQ==") >>,
          << Base64Image("image/png", "QUI="), Base64Image("image/png", "QUJDRA") >> >>
  /\ ret.result.ImageCount = 5
  /\ ret.result.TotalImageSizeBytes = 0 + 1 + 2 + 4
  /\ ret.result.MediaTypes = << "image/gif", "image/png" >>

(***************************************************************************)
(* Properties of the streaming session.                                    *)
(***************************************************************************)
\* the stream has yielded text events only
OnlyTextEvents == sw.types \subseteq { "content_block_delta" }

\* the first non-empty text event was read before the Close that started goroutine i
FirstTokenBefore(i) ==
  /\ sw.firstTokenTime # NoTime
  /\ sw.firstTokenTime < sw.startTime + metering[i].duration

\* C20: when the stream of a session yields only text events and is then
\* closed, every payload handed to the dispatcher carries as inputTokenCount
\* the estimate computed from the request when the stream was opened, as
\* outputTokenCount zero, and, when a non-empty text event was read before
\* the Close, as timeToFirstToken the whole milliseconds between the start
\* of the stream and the reading of the first such event.
C20_EstimateFallback ==
  \A i \in Dispatched :
    OnlyTextEvents =>
      /\ metering[i].payload.inputTokenCount = estimateInputTokens(sw.params)
      /\ metering[i].payload.outputTokenCount = 0
      /\ FirstTokenBefore(i) =>
           metering[i].payload.timeToFirstToken
             = Milliseconds(sw.firstTokenTime - sw.startTime)

\* a payload of a stream of text events whose first text was read a
\* millisecond or more after the start, with an estimate above the floor's case
C20_Witness ==
  \E i \in Dispatched :
    /\ OnlyTextEvents
    /\ sw.yielded = 2
    /\ FirstTokenBefore(i)
    /\ sw.startTime > 0
    /\ metering[i].payload.timeToFirstToken = 1
    /\ metering[i].payload.inputTokenCount = 7
    /\ metering[i].payload.outputTokenCount = 0

\* the event carries usage: a message_delta whose Usage is not the zero value
UsageBearing(event) == isMessageDeltaEvent(event) /\ ~UsageIsNil(event)

\* the counters of the session
Counters(w) == << w.inputTokens, w.outputTokens >>

\* C21: in every state of a session totalTokens = inputTokens + outputTokens;
\* reading a usage-bearing message_delta event sets the input and output
\* counters to the counts of that event (it does not add to them), and no
\* other step of an open session changes the counters, so the counters are
\* those of the last usage event read.
C21_UsageAuthoritative ==
  /\ [](sw.totalTokens = sw.inputTokens + sw.outputTokens)
  /\ [][ /\ (Current /\ UsageBearing(sw.cur)) =>
              Counters(sw') = << sw.cur.Usage.InputTokens, sw.cur.Usage.OutputTokens >>
         /\ (sw.open /\ Counters(sw') # Counters(sw)) =>
              (UsageBearing(sw.cur) /\ sw' = CurrentOf(sw, clock)) ]_vars

\* a second usage event has been read after a first: the stop reason is that
\* of the first event, the counters are those of the second, not their sum
C21_Witness ==
  /\ sw.yielded = 2
  /\ sw.stopReason = "end_turn"
  /\ sw.cur.Usage = [ InputTokens |-> 0, OutputTokens |-> 3 ]
  /\ Counters(sw) = << 0, 3 >>
  /\ sw.totalTokens = 3

\* the event carries non-empty generated text
HasText(event) == event.Text # ""

\* C22: the first-token timestamp of a session is unset until Current reads
\* an event with non-empty text; that step sets it to the time of the
\* reading; once set, no step (a later event, Close, the metering goroutine)
\* changes it.
C22_FirstTokenOnce ==
  [][ /\ (sw.open /\ sw.firstTokenTime = NoTime /\ sw'.firstTokenTime # NoTime) =>
           (HasText(sw.cur) /\ sw' = CurrentOf(sw, clock) /\ sw'.firstTokenTime = clock)
      /\ (Current /\ HasText(sw.cur)) => sw'.firstTokenTime # NoTime
      /\ (Current /\ ~HasText(sw.cur)) => sw'.firstTokenTime = sw.firstTokenTime
      /\ (sw.open /\ sw.firstTokenTime # NoTime) => sw'.firstTokenTime = sw.firstTokenTime
    ]_vars

\* the timestamp was set by a text event, then time passed, a usage event
\* was read and the session was closed and its payload built
C22_Witness ==
  /\ sw.firstTokenTime # NoTime
  /\ sw.firstTokenTime < clock
  /\ sw.yielded = 2
  /\ Counters(sw) = << 7, 5 >>
  /\ Dispatched # {}

\* C23: a session is finalized once: whatever Next, Current and Close calls
\* are made on it, Close being called more than once included, at most one
\* payload of the stream is handed to the dispatcher.
C23_Claim == Cardinality(Dispatched) <= 1

C25_Original ==
  Returned("buildMeteringPayload") =>
    ret.payload["stopReason"] = PayloadStopReason(arg.resp.StopReason)

\* C25 amended: the payload's stopReason is ERROR when the metadata has the
\* key errorReason, and otherwise the canonical mapping of the provider's
\* stop reason (END when there is none); the value the metadata gives under
\* stopReason, or under any key but errorReason, has no effect on it.
C25_Amended ==
  Returned("buildMeteringPayload") =>
    ret.payload["stopReason"] =
      IF "errorReason" \in DOMAIN arg.metadata THEN "ERROR"
      ELSE PayloadStopReason(arg.resp.StopReason)

\* the metadata sets stopReason and other keys, the provider stopped at the
\* token limit, and the payload says so
C25_Witness ==
  /\ Returned("buildMeteringPayload")
  /\ arg.resp.StopReason = "max_tokens"
  /\ { "stopReason", "customField1", "transactionId" } \subseteq DOMAIN arg.metadata
  /\ "errorReason" \notin DOMAIN arg.metadata
  /\ ret.payload["stopReason"] = "TOKEN_LIMIT"

\* the keys the core computes itself
ReservedKeys == { "stopReason", "operationType" }

\* C26: every key of the caller's metadata other than the reserved keys is
\* in the payload with the caller's value.
C26_Claim ==
  Returned("buildMeteringPayload") =>
    \A k \in DOMAIN arg.metadata \ ReservedKeys :
      k \in DOMAIN ret.payload /\ ret.payload[k] = arg.metadata[k]


C28_Lifecycle ==
  [][ /\ \A p \in Procs :
           /\ ( /\ proc[p].pc \in { "Initialize", "Initialize:config" }
                /\ proc'[p].pc = "idle"
                /\ proc'[p].err = "" )
              => global'.initialized /\ global'.globalClient # NilClient
           /\ ( proc[p].pc = "Reset" /\ proc'[p].pc = "idle" )
              => ~global'.initialized /\ global'.globalClient = NilClient
           /\ ( proc'[p] # proc[p] /\ proc'[p].op = "IsInitialized" )
              => proc'[p].flag = global.initialized
           /\ ( proc'[p] # proc[p] /\ proc'[p].op = "GetClient" )
              => IF global.initialized
                 THEN proc'[p].err = "" /\ proc'[p].client = global.globalClient.id
                      /\ proc'[p].client # 0
                 ELSE proc'[p].err # "" /\ proc'[p].client = 0
           /\ ( /\ proc[p].pc = "Initialize:config"
                /\ proc'[p].pc = "idle"
                /\ env.REVENIUM_METERING_API_KEY # "" )
              => proc'[p].err = "" /\ global'.initialized
      /\ global'.initialized # global.initialized
         => \E p \in Procs : /\ proc[p].pc \in { "Initialize:config", "Reset" }
                             /\ proc'[p].pc = "idle" ]_vars

\* the second construction of a run (Initialize, Reset, Initialize) is
\* observed by GetClient in one goroutine and by IsInitialized in another
C28_Witness ==
  /\ global.initialized
  /\ global.built = 2
  /\ global.globalClient.id = 2
  /\ \E p, q \in Procs :
       /\ proc[p].op = "GetClient" /\ proc[p].client = global.globalClient.id
       /\ proc[q].op = "IsInitialized" /\ proc[q].flag

\* C29: an Initialize that runs with neither REVENIUM_METERING_API_KEY nor
\* ANTHROPIC_API_KEY in the environment returns no error and leaves the
\* middleware initialized, so that GetClient succeeds.
C29_Claim ==
  [][ \A p \in Procs :
        ( /\ proc[p].pc = "Initialize:config"
          /\ proc'[p].pc = "idle"
          /\ env.REVENIUM_METERING_API_KEY = ""
          /\ env.ANTHROPIC_API_KEY = "" )
        => /\ proc'[p].err = ""
           /\ global'.initialized
           /\ global'.globalClient # NilClient ]_vars

\* C30: Initialize calls of concurrent goroutines exclude one another; each
\* of them that runs with the metering key in the environment returns no
\* error and leaves the middleware initialized; a client is constructed only
\* while the middleware is uninitialized, so once per initialization; and
\* while it stays initialized every GetClient returns that one instance.
C30_ConcurrentInitSafe ==
  /\ [](Cardinality({ p \in Procs : proc[p].pc # "idle" }) <= 1)
  /\ [](global.initialized => global.globalClient.id = global.built)
  /\ [][ /\ global'.built # global.built
            => /\ ~global.initialized
               /\ global'.initialized
               /\ global'.built = global.built + 1
               /\ global'.globalClient.id = global'.built
         /\ \A p \in Procs :
              /\ ( /\ proc[p].pc \in { "Initialize", "Initialize:config" }
                   /\ proc'[p].pc = "idle"
                   /\ env.REVENIUM_METERING_API_KEY # "" )
                 => proc'[p].err = "" /\ global'.initialized
              /\ ( /\ proc'[p] # proc[p]
                   /\ proc'[p].op = "GetClient"
                   /\ global.initialized )
                 => proc'[p].client = global.built ]_vars

\* one goroutine has initialized the middleware and a second one, inside
\* Initialize with the lock, is about to find it initialized
C30_Witness ==
  /\ global.initialized
  /\ global.built = 1
  /\ env.REVENIUM_METERING_API_KEY # ""
  /\ \E p, q \in Procs :
       /\ p # q
       /\ proc[p].pc = "Initialize"
       /\ global.globalMu = p
       /\ proc[q].op = "Initialize" /\ proc[q].pc = "idle" /\ proc[q].err = ""

\* C33: the input-token estimate a streaming session is opened with is at
\* least 10, whatever the messages and content blocks of the request.
C33_Claim ==
  ( sw.open /\ sw.yielded = 0 )
  => /\ estimateInputTokens(sw.params) >= 10
     /\ sw.inputTokens >= 10

C36_TruncationFlagPropagates ==
  Returned("capture") =>
    LET cutRequest ==
          \/ TextLen(arg.params.System) > MaxPromptLength
          \/ \E i \in DOMAIN arg.params.Messages :
               TextLen(arg.params.Messages[i].content) > halfLimit
        cutResponse == TextLen(arg.text) > MaxPromptLength
    IN  /\ ("promptsTruncated" \in DOMAIN ret.payload)
             <=> (arg.CapturePrompts /\ (cutRequest \/ cutResponse))
        /\ "promptsTruncated" \in DOMAIN ret.payload
             => ret.payload["promptsTruncated"] = TRUE

\* a synchronous call whose system prompt was cut at the extraction of the
\* request and whose response, extracted afterwards, was not
C36_Witness ==
  /\ Returned("capture")
  /\ arg.CapturePrompts
  /\ ~arg.isStreamed
  /\ TextLen(arg.params.System) > MaxPromptLength
  /\ arg.params.Messages = << >>
  /\ arg.text = Ascii(10)
  /\ ret.payload["outputResponse"] = Ascii(10)
  /\ ret.payload["promptsTruncated"] = TRUE

\* C31: while the capture flag of the client is off, a streaming session
\* holds no prompt data and accumulates no text, and no payload handed to
\* the dispatcher, of a stream or of a CreateMessage call, through either
\* provider, has one of the keys systemPrompt, inputMessages, outputResponse,
\* promptsTruncated.
C31_CaptureOptIn ==
  ~CapturePrompts =>
    /\ sw.promptData = NilPromptData
    /\ sw.accumulatedContent = EmptyText
    /\ \A i \in DOMAIN metering :
         metering[i].pc = "done" => DOMAIN metering[i].payload \cap PromptKeys = {}

\* capture is off, Current has read an event with text, and the payloads of
\* that stream and of a CreateMessage call have been dispatched
C31_Witness ==
  /\ ~CapturePrompts
  /\ sw.cur.Text = "Hi"
  /\ sw.firstTokenTime # NoTime
  /\ Len(metering) = 2
  /\ \A i \in DOMAIN metering : metering[i].pc = "done"
  /\ \E i, j \in DOMAIN metering :
       /\ metering[i].payload["inputTokenCount"] = 3
       /\ metering[i].payload["provider"] # metering[j].payload["provider"]
       /\ metering[j].payload["completionStartTime"] # NoTime

\* C32: with capture on, when the stream is closed the accumulated text of
\* the session is the concatenation of the texts of the events the stream
\* yielded, each once, whatever calls of Next and Current the caller made.
C32_Claim ==
  ( CapturePrompts /\ sw.streamClosed ) => sw.accumulatedContent = sw.fragments

\* C34: no lock is held across a blocking wait; for Reset: while a goroutine
\* holds globalMu inside Reset on a client that is set, no metering goroutine
\* of that client is in flight for it to wait for.
C34_Claim ==
  \A p \in Procs :
    ( proc[p].pc = "Reset" /\ global.globalMu = p /\ global.globalClient # NilClient )
    => wg = 0

\* C37: a panic in a dispatch goroutine, of a CreateMessage call or of a
\* stream, ends that goroutine alone: it is logged, the counter of in-flight
\* goroutines is decremented and is the number of goroutines still running,
\* Wait never panics, and a Flush or Close called after the calls returns.
C37_PanicsContained ==
  /\ [](wg = Cardinality(Running))
  /\ [](flush.pc # "panicked")
  /\ [](\A t \in TaskIds : task[t].result = Recovered => task[t].pc = "done" /\ task[t].logged)
  /\ (flush.pc # "idle") ~> (flush.pc = "returned")

\* Flush or Close has returned after blocking on two goroutines, one of a
\* call and one of a stream, that both ended in a panic
C37_Witness ==
  /\ flush.pc = "returned"
  /\ flush.inflight = 2
  /\ \E t \in Calls : task[t].result = Recovered
  /\ \E t \in CloseIds : task[t].result = Recovered
  /\ wg = 0

\* C40: on a session that wraps the gateway's stream, Next returns false
\* without a panic, no event is yielded, and every payload dispatched by a
\* Close carries the estimated input tokens and zero output tokens.
C40_Claim ==
  sw.provider = "AWS" =>
    /\ ~sw.panicked
    /\ sw.yielded = 0
    /\ \A i \in Dispatched :
         /\ metering[i].payload.inputTokenCount = estimateInputTokens(sw.params)
         /\ metering[i].payload.outputTokenCount = 0

\* C39: while CloseAll has not run, every client GetReveniumClient has
\* returned for a key is the client the cache holds under that key (so
\* callers with the same key hold the same client), and CloseAll closes every
\* client that had been handed out when it ran.
C39_Claim ==
  /\ cm.closeAlls = 0 =>
       \A p \in Procs :
         (getter[p].pc = "returned" /\ getter[p].err = "") =>
           /\ getter[p].key \in DOMAIN cm.reveniumClients
           /\ cm.reveniumClients[getter[p].key] = getter[p].client
  /\ cm.settled \subseteq cm.closed
====
